---- MODULE Spec2Model ----
(***************************************************************************)
(* A model of the attribute codec (src/src/file/attributes.rs) and of the  *)
(* meta-data decoder (src/src/decode.rs) of the exr crate.                 *)
(*                                                                         *)
(* Representation.  A byte is a number 0..255 and a stream or buffer is a  *)
(* sequence of bytes.  Every 32-bit quantity (i32, u32, f32) is held as    *)
(* its bit pattern, written as the two's complement integer with that      *)
(* pattern (-2^31 .. 2^31-1): an `as u32` / `as i32` cast is then the      *)
(* identity, as in Rust, and unsigned order and wrapping arithmetic are    *)
(* computed on the pattern.  A 64-bit quantity is the pair <<low, high>>   *)
(* of its 32-bit halves.  A Text is the sequence of its bytes.             *)
(***************************************************************************)
EXTENDS Integers, Sequences, FiniteSets, TLC

\* ------------------------------------------------------------------------
\* Bounds of the model
\* ------------------------------------------------------------------------

\* longest text (attribute name, channel name) that is written
MaxTextLen == 257
\* largest pixel buffer of a preview, in pixels (4 bytes each)
MaxPreviewPixels == 2
\* largest dividend / divisor handed to RoundingMode::divide
MaxDividend == 100
MaxDivisor == 51
\* most parts a header stream is put together from (a part is one further
\* attribute or a run of required attributes)
MaxParts == 2
\* largest number of the run 0..MaxLogNumber handed to log2
MaxLogNumber == 70
\* largest word of the run 0..MaxVersionWord handed to version
MaxVersionWord == 300
\* largest chunk count of a single-part header, and most offsets after it
MaxChunks == 1
\* most bytes i32_sized_text pushes one by one after its first 512
MaxPushedBytes == 3

\* ------------------------------------------------------------------------
\* 32-bit patterns and little-endian bytes (file::io, byteorder)
\* ------------------------------------------------------------------------

\* the four bytes of a 32-bit pattern, least significant first
LE32(w) == << w % 256, (w \div 256) % 256, (w \div 65536) % 256, (w \div 16777216) % 256 >>

\* the 32-bit pattern of four little-endian bytes
FromLE32(b) ==
    b[1] + 256 * b[2] + 65536 * b[3]
         + 16777216 * (IF b[4] < 128 THEN b[4] ELSE b[4] - 256)

\* the eight bytes of a 64-bit quantity <<low, high>>
LE64(d) == LE32(d[1]) \o LE32(d[2])

\* unsigned order of two 32-bit patterns
ULt(a, b) == IF (a < 0) = (b < 0) THEN a < b ELSE b < 0

\* u32 multiplication: the wrapped product and whether the true product
\* exceeds 32 bits
MulU32(a, b) ==
    LET x == LE32(a)
        y == LE32(b)
        c0 == x[1]*y[1]
        c1 == x[1]*y[2] + x[2]*y[1]
        c2 == x[1]*y[3] + x[2]*y[2] + x[3]*y[1]
        c3 == x[1]*y[4] + x[2]*y[3] + x[3]*y[2] + x[4]*y[1]
        hi == x[2]*y[4] + x[3]*y[3] + x[4]*y[2] + x[3]*y[4] + x[4]*y[3] + x[4]*y[4]
        t1 == c1 + (c0 \div 256)
        t2 == c2 + (t1 \div 256)
        t3 == c3 + (t2 \div 256)
    IN  [ val |-> FromLE32(<< c0 % 256, t1 % 256, t2 % 256, t3 % 256 >>),
          overflow |-> (hi + (t3 \div 256)) > 0 ]

\* an i8 as the byte that stores it, and back
I8ToByte(v) == v % 256
ByteToI8(b) == IF b < 128 THEN b ELSE b - 256

\* the concatenation of a sequence of byte sequences
RECURSIVE Concat(_)
Concat(ss) == IF ss = <<>> THEN <<>> ELSE Head(ss) \o Concat(Tail(ss))

\* n copies of the byte b
Repeat(b, n) == [i \in 1..n |-> b]

\* ------------------------------------------------------------------------
\* Results
\* ------------------------------------------------------------------------

\* an error value: Invalid::Content(what, req(n)), Invalid::Combination,
\* an io error, a panic of the build, or UnknownAttributeType{bytes_to_skip: n}
Error(kind, what, req, n) == [kind |-> kind, what |-> what, req |-> req, n |-> n]
NoError == Error("none", "", "", 0)
IoError == Error("IoError", "UnexpectedEof", "", 0)
Panic(what) == Error("panic", what, "", 0)
UnknownAttributeType(bytes_to_skip) == Error("UnknownAttributeType", "", "", bytes_to_skip)

\* the result of a write: Ok(()) or Err(err), and the output as it stands
WriteOk(out) == [ok |-> TRUE, err |-> NoError, out |-> out]
WriteErr(err, out) == [ok |-> FALSE, err |-> err, out |-> out]

\* the `?` operator of a writer: go on with the output unless the step failed
AndThen(r, Rest(_)) == IF r.ok THEN Rest(r.out) ELSE r

\* the result of a read: Ok(val) or Err(err), and the stream position after it
ReadOk(val, pos) == [ok |-> TRUE, val |-> val, pos |-> pos, err |-> NoError]
ReadErr(err, pos) == [ok |-> FALSE, val |-> <<>>, pos |-> pos, err |-> err]

\* ------------------------------------------------------------------------
\* Primitive writes (file::io::Data::write, write_u8_array, write_i8_array,
\* write_f32_array, SequenceEnd::write)
\* ------------------------------------------------------------------------

write_u8(b, out) == WriteOk(Append(out, b))
write_32(w, out) == WriteOk(out \o LE32(w))
write_64(d, out) == WriteOk(out \o LE64(d))
write_u8_array(bytes, out) == WriteOk(out \o bytes)
write_i8_array(values, out) == WriteOk(out \o [i \in 1..Len(values) |-> I8ToByte(values[i])])
write_f32_array(values, out) == WriteOk(out \o Concat([i \in 1..Len(values) |-> LE32(values[i])]))
SequenceEnd_write(out) == write_u8(0, out)

\* a sequence of 32-bit fields, written one after the other
write_32s(ws, out) == WriteOk(out \o Concat([i \in 1..Len(ws) |-> LE32(ws[i])]))

\* Data::byte_size of the primitive types
SizeOf32 == 4
SizeOf64 == 8
SizeOf8 == 1
SequenceEnd_byte_size == 1

\* ------------------------------------------------------------------------
\* Primitive reads (decode.rs read_u8 .. read_f64, file::io::Data::read)
\* ------------------------------------------------------------------------

\* bytes left in the stream s at position pos (a position past the end has none)
Remaining(s, pos) == IF pos >= Len(s) THEN 0 ELSE Len(s) - pos

read_u8(s, pos) ==
    IF Remaining(s, pos) >= 1 THEN ReadOk(s[pos + 1], pos + 1) ELSE ReadErr(IoError, pos)

read_32(s, pos) ==
    IF Remaining(s, pos) >= 4
    THEN ReadOk(FromLE32(SubSeq(s, pos + 1, pos + 4)), pos + 4)
    ELSE ReadErr(IoError, pos)

read_64(s, pos) ==
    IF Remaining(s, pos) >= 8
    THEN ReadOk(<< FromLE32(SubSeq(s, pos + 1, pos + 4)), FromLE32(SubSeq(s, pos + 5, pos + 8)) >>,
                pos + 8)
    ELSE ReadErr(IoError, pos)

\* n 32-bit fields read one after the other, as a tuple
read_32s(s, pos, n) ==
    IF Remaining(s, pos) >= 4 * n
    THEN ReadOk([i \in 1..n |-> FromLE32(SubSeq(s, pos + 4*i - 3, pos + 4*i))], pos + 4 * n)
    ELSE ReadErr(IoError, pos)

\* n bytes read into a buffer; n is a usize given as a 32-bit pattern
\* (a negative pattern is a length of 2^31 or more, which no stream here has)
read_u8_vec(s, pos, n) ==
    IF n >= 0 /\ Remaining(s, pos) >= n
    THEN ReadOk(SubSeq(s, pos + 1, pos + n), pos + n)
    ELSE ReadErr(IoError, pos)

\* ------------------------------------------------------------------------
\* Text (attributes.rs, impl Text)
\* ------------------------------------------------------------------------

\* Option<bool> of the long_names parameter
None == "None"
Some(b) == IF b THEN "Some(true)" ELSE "Some(false)"

ContentTextMin1 == Error("Content", "Text", "Min", 1)
ContentTextMax31 == Error("Content", "Text", "Max", 31)
ContentTextMax255 == Error("Content", "Text", "Max", 255)

\* Text::validate_bytes with the limits off by one (<= for <)
Text_validate_bytes_inclusive(text, long) ==
    LET is_valid == Len(text) # 0 /\ CASE long = Some(FALSE) -> Len(text) <= 32
                                        [] long = Some(TRUE) -> Len(text) <= 256
                                        [] OTHER -> TRUE
    IN  IF is_valid THEN NoError
        ELSE IF Len(text) = 0 THEN ContentTextMin1
        ELSE IF long = Some(TRUE) THEN ContentTextMax255
        ELSE ContentTextMax31

\* Text::validate_bytes: NoError for Ok(()), else the Invalid it returns
Text_validate_bytes(text, long) ==
    LET is_valid == Len(text) # 0 /\ CASE long = Some(FALSE) -> Len(text) < 32
                                        [] long = Some(TRUE) -> Len(text) < 256
                                        [] OTHER -> TRUE
    IN  IF is_valid THEN NoError
        ELSE IF Len(text) = 0 THEN ContentTextMin1
        ELSE IF long = Some(TRUE) THEN ContentTextMax255
        ELSE ContentTextMax31

Text_null_terminated_byte_size(text) == Len(text) + SequenceEnd_byte_size

Text_i32_sized_byte_size(text) == Len(text) + SizeOf32

Text_write_unsized_bytes(text, out, long) ==
    LET validity == Text_validate_bytes(text, long)
    IN  IF validity # NoError THEN WriteErr(validity, out) ELSE write_u8_array(text, out)

Text_write_i32_sized(text, out, long) ==
    AndThen(write_32(Len(text), out), LAMBDA o : Text_write_unsized_bytes(text, o, long))

Text_write_null_terminated(text, out, long) ==
    AndThen(Text_write_unsized_bytes(text, out, long), LAMBDA o : SequenceEnd_write(o))

RECURSIVE Text_write_vec_of_i32_sized_texts(_, _)
Text_write_vec_of_i32_sized_texts(texts, out) ==
    IF texts = <<>> THEN WriteOk(out)
    ELSE AndThen(Text_write_i32_sized(Head(texts), out, None),
                 LAMBDA o : Text_write_vec_of_i32_sized_texts(Tail(texts), o))

\* Text::read_null_terminated: the bytes up to the next 0, which is consumed;
\* the loop ends at the first 0 at or after the position, or at the end of
\* the stream with an error
Text_read_null_terminated(s, pos) ==
    LET zeros == { i \in 1..Len(s) : i > pos /\ s[i] = 0 }
        first == CHOOSE i \in zeros : \A j \in zeros : i <= j
    IN  IF zeros = {} THEN ReadErr(IoError, pos)
        ELSE ReadOk(SubSeq(s, pos + 1, first - 1), first)

Text_read_sized(s, pos, size) == read_u8_vec(s, pos, size)

Text_read_i32_sized(s, pos) ==
    LET size == read_32(s, pos)
    IN  IF ~size.ok THEN size ELSE Text_read_sized(s, size.pos, size.val)

\* Text::read_vec_of_i32_sized: texts are read until the processed bytes reach
\* the attribute size; the debug assertion compares them at the end
RECURSIVE Text_read_vec_from(_, _, _, _, _)
Text_read_vec_from(s, pos, attribute_value_byte_size, processed_bytes, result) ==
    IF ULt(processed_bytes, attribute_value_byte_size)
    THEN LET text == Text_read_i32_sized(s, pos)
         IN  IF ~text.ok THEN text
             ELSE Text_read_vec_from(s, text.pos, attribute_value_byte_size,
                                     processed_bytes + SizeOf32 + Len(text.val),
                                     Append(result, text.val))
    ELSE ReadOk([texts |-> result, processed_bytes |-> processed_bytes], pos)

Text_read_vec_of_i32_sized(s, pos, attribute_value_byte_size, debug) ==
    LET r == Text_read_vec_from(s, pos, attribute_value_byte_size, 0, <<>>)
    IN  IF ~r.ok THEN r
        ELSE IF debug /\ r.val.processed_bytes # attribute_value_byte_size
        THEN ReadErr(Panic("text lengths did not match attribute size"), r.pos)
        ELSE ReadOk(r.val.texts, r.pos)

\* the texts of the `type` attribute (attributes.rs, mod kind)
SCAN_LINE == <<115, 99, 97, 110, 108, 105, 110, 101, 105, 109, 97, 103, 101>>  \* b"scanlineimage"
TILE == <<116, 105, 108, 101, 100, 105, 109, 97, 103, 101>>                    \* b"tiledimage"
DEEP_SCAN_LINE == <<100, 101, 101, 112, 115, 99, 97, 110, 108, 105, 110, 101>> \* b"deepscanline"
DEEP_TILE == <<100, 101, 101, 112, 116, 105, 108, 101>>                        \* b"deeptile"

\* ParsedText: the variant and, for Arbitrary, its text
ParsedText(variant, text) == [variant |-> variant, text |-> text]

ParsedText_parse(text) ==
    CASE text = SCAN_LINE -> ParsedText("ScanLine", <<>>)
      [] text = TILE -> ParsedText("Tile", <<>>)
      [] text = DEEP_SCAN_LINE -> ParsedText("DeepScanLine", <<>>)
      [] text = DEEP_TILE -> ParsedText("DeepTile", <<>>)
      [] OTHER -> ParsedText("Arbitrary", text)

ParsedText_to_text_bytes(p) ==
    CASE p.variant = "ScanLine" -> SCAN_LINE
      [] p.variant = "Tile" -> TILE
      [] p.variant = "DeepScanLine" -> DEEP_SCAN_LINE
      [] p.variant = "DeepTile" -> DEEP_TILE
      [] OTHER -> p.text


\* ------------------------------------------------------------------------
\* The attribute values (attributes.rs): byte_size, write
\* ------------------------------------------------------------------------

CombinationBox2i == Error("Combination", "box2i min, box2i max", "", 0)
CombinationPreview == Error("Combination", "Preview dimensions, Preview pixel data length", "", 0)
ContentEnum(what, min, max) == Error("Content", what, "Range", max)

\* I32Box2::validate: NoError for Ok(())
I32Box2_validate(b) ==
    IF b.x_min > b.x_max \/ b.y_min > b.y_max THEN CombinationBox2i ELSE NoError

I32Box2_byte_size(b) == 4 * SizeOf32

I32Box2_write(b, out) == write_32s(<< b.x_min, b.y_min, b.x_max, b.y_max >>, out)

F32Box2_byte_size(b) == 4 * SizeOf32

F32Box2_write(b, out) == write_32s(<< b.x_min, b.y_min, b.x_max, b.y_max >>, out)

PixelType_byte_size == SizeOf32

PixelType_write(t, out) ==
    write_32(CASE t = "U32" -> 0 [] t = "F16" -> 1 [] t = "F32" -> 2, out)

Channel_byte_size(c) ==
    Text_null_terminated_byte_size(c.name) + PixelType_byte_size
        + 1 + Len(c.reserved) + SizeOf32 + SizeOf32

Channel_write(c, out, long) ==
    AndThen(Text_write_null_terminated(c.name, out, Some(long)), LAMBDA o1 :
    AndThen(PixelType_write(c.pixel_type, o1), LAMBDA o2 :
    AndThen(write_u8(IF c.is_linear THEN 1 ELSE 0, o2), LAMBDA o3 :
    AndThen(write_i8_array(c.reserved, o3), LAMBDA o4 :
    AndThen(write_32(c.x_sampling, o4), LAMBDA o5 :
    write_32(c.y_sampling, o5))))))

RECURSIVE Channel_list_byte_size_sum(_)
Channel_list_byte_size_sum(channels) ==
    IF channels = <<>> THEN 0
    ELSE Channel_byte_size(Head(channels)) + Channel_list_byte_size_sum(Tail(channels))

Channel_list_byte_size(channels) == Channel_list_byte_size_sum(channels) + SequenceEnd_byte_size

RECURSIVE Channel_write_list(_, _, _)
Channel_write_list(channels, out, long) ==
    IF channels = <<>> THEN SequenceEnd_write(out)
    ELSE AndThen(Channel_write(Head(channels), out, long),
                 LAMBDA o : Channel_write_list(Tail(channels), o, long))

Chromaticities_byte_size(c) == 8 * SizeOf32

Chromaticities_write(c, out) ==
    write_32s(<< c.red_x, c.red_y, c.green_x, c.green_y,
                 c.blue_x, c.blue_y, c.white_x, c.white_y >>, out)

Compressions == << "None", "RLE", "ZIPS", "ZIP", "PIZ", "PXR24", "B44", "B44A" >>
EnvironmentMaps == << "LatitudeLongitude", "Cube" >>
LineOrders == << "IncreasingY", "DecreasingY", "RandomY" >>
LevelModes == << "One", "MipMap", "RipMap" >>
RoundingModes == << "Down", "Up" >>

\* the number an enum variant is written as: its place in the match, from 0
Discriminant(variants, v) == CHOOSE i \in 0..(Len(variants) - 1) : variants[i + 1] = v

Compression_byte_size(c) == SizeOf8
Compression_write(c, out) == write_u8(Discriminant(Compressions, c), out)

EnvironmentMap_byte_size(e) == SizeOf32
EnvironmentMap_write(e, out) == write_u8(Discriminant(EnvironmentMaps, e), out)

KeyCode_byte_size(k) == 6 * SizeOf32

KeyCode_write(k, out) ==
    write_32s(<< k.film_manufacturer_code, k.film_type, k.film_roll_prefix, k.count,
                 k.perforation_offset, k.perforations_per_count >>, out)

LineOrder_byte_size(l) == SizeOf32
LineOrder_write(l, out) == write_u8(Discriminant(LineOrders, l), out)

\* Preview::validate: width * height * 4 is u32 arithmetic, which panics on
\* overflow in a build with overflow checks and wraps in one without
Preview_validate(p, debug) ==
    LET wh == MulU32(p.width, p.height)
        whc == MulU32(wh.val, 4)
    IN  IF debug /\ (wh.overflow \/ whc.overflow) THEN Panic("attempt to multiply with overflow")
        ELSE IF whc.val # Len(p.pixel_data) THEN CombinationPreview
        ELSE NoError

Preview_byte_size(p) == SizeOf32 + SizeOf32 + Len(p.pixel_data)

Preview_write(p, out) ==
    AndThen(write_32(p.width, out), LAMBDA o1 :
    AndThen(write_32(p.height, o1), LAMBDA o2 :
    write_i8_array(p.pixel_data, o2)))

TileDescription_byte_size(t) == SizeOf32 + SizeOf32 + 1

\* TileDescription::write with the rounding mode in bit 3 instead of bit 4
TileDescription_write_bit3(t, out) ==
    LET level_mode == Discriminant(LevelModes, t.level_mode)
        rounding_mode == Discriminant(RoundingModes, t.rounding_mode)
        mode == level_mode + (rounding_mode * 8)
    IN  AndThen(write_32(t.x_size, out), LAMBDA o1 :
        AndThen(write_32(t.y_size, o1), LAMBDA o2 :
        write_u8(mode, o2)))

TileDescription_write(t, out) ==
    LET level_mode == Discriminant(LevelModes, t.level_mode)
        rounding_mode == Discriminant(RoundingModes, t.rounding_mode)
        mode == level_mode + (rounding_mode * 16)
    IN  AndThen(write_32(t.x_size, out), LAMBDA o1 :
        AndThen(write_32(t.y_size, o1), LAMBDA o2 :
        write_u8(mode, o2)))

RECURSIVE TextVector_byte_size(_)
TextVector_byte_size(texts) ==
    IF texts = <<>> THEN 0
    ELSE Text_i32_sized_byte_size(Head(texts)) + TextVector_byte_size(Tail(texts))

AttributeValue_byte_size(v) ==
    CASE v.kind = "I32Box2" -> I32Box2_byte_size(v)
      [] v.kind = "F32Box2" -> F32Box2_byte_size(v)
      [] v.kind = "I32" -> SizeOf32
      [] v.kind = "F32" -> SizeOf32
      [] v.kind = "F64" -> SizeOf64
      [] v.kind = "Rational" -> SizeOf32 + SizeOf32
      [] v.kind = "TimeCode" -> SizeOf32 + SizeOf32
      [] v.kind = "I32Vec2" -> SizeOf32 + SizeOf32
      [] v.kind = "F32Vec2" -> SizeOf32 + SizeOf32
      [] v.kind = "I32Vec3" -> SizeOf32 + SizeOf32 + SizeOf32
      [] v.kind = "F32Vec3" -> SizeOf32 + SizeOf32 + SizeOf32
      [] v.kind = "ChannelList" -> Channel_list_byte_size(v.channels)
      [] v.kind = "Chromaticities" -> Chromaticities_byte_size(v)
      [] v.kind = "Compression" -> Compression_byte_size(v.value)
      [] v.kind = "EnvironmentMap" -> EnvironmentMap_byte_size(v.value)
      [] v.kind = "KeyCode" -> KeyCode_byte_size(v)
      [] v.kind = "LineOrder" -> LineOrder_byte_size(v.value)
      [] v.kind = "F32Matrix3x3" -> Len(v.value) * SizeOf32
      [] v.kind = "F32Matrix4x4" -> Len(v.value) * SizeOf32
      [] v.kind = "Preview" -> Preview_byte_size(v)
      [] v.kind = "Text" -> Len(ParsedText_to_text_bytes(v.value))
      [] v.kind = "TextVector" -> TextVector_byte_size(v.value)
      [] v.kind = "TileDescription" -> TileDescription_byte_size(v)

AttributeValue_kind_name(v) ==
    CASE v.kind = "I32Box2" -> <<98, 111, 120, 50, 105>>                       \* b"box2i"
      [] v.kind = "F32Box2" -> <<98, 111, 120, 50, 102>>                       \* b"box2f"
      [] v.kind = "I32" -> <<105, 110, 116>>                                   \* b"int"
      [] v.kind = "F32" -> <<102, 108, 111, 97, 116>>                          \* b"float"
      [] v.kind = "F64" -> <<100, 111, 117, 98, 108, 101>>                     \* b"double"
      [] v.kind = "Rational" -> <<114, 97, 116, 105, 111, 110, 97, 108>>       \* b"rational"
      [] v.kind = "TimeCode" -> <<116, 105, 109, 101, 99, 111, 100, 101>>      \* b"timecode"
      [] v.kind = "I32Vec2" -> <<118, 101, 99, 50, 105>>                       \* b"vec2i"
      [] v.kind = "F32Vec2" -> <<118, 101, 99, 50, 102>>                       \* b"vec2f"
      [] v.kind = "I32Vec3" -> <<118, 101, 99, 51, 105>>                       \* b"vec3i"
      [] v.kind = "F32Vec3" -> <<118, 101, 99, 51, 102>>                       \* b"vec3f"
      [] v.kind = "ChannelList" -> <<99, 104, 108, 105, 115, 116>>             \* b"chlist"
      [] v.kind = "Chromaticities" ->
            <<99, 104, 114, 111, 109, 97, 116, 105, 99, 105, 116, 105, 101, 115>> \* b"chromaticities"
      [] v.kind = "Compression" ->
            <<99, 111, 109, 112, 114, 101, 115, 115, 105, 111, 110>>           \* b"compression"
      [] v.kind = "EnvironmentMap" -> <<101, 110, 118, 109, 97, 112>>          \* b"envmap"
      [] v.kind = "KeyCode" -> <<107, 101, 121, 99, 111, 100, 101>>            \* b"keycode"
      [] v.kind = "LineOrder" -> <<108, 105, 110, 101, 79, 114, 100, 101, 114>> \* b"lineOrder"
      [] v.kind = "F32Matrix3x3" -> <<109, 51, 51, 102>>                       \* b"m33f"
      [] v.kind = "F32Matrix4x4" -> <<109, 52, 52, 102>>                       \* b"m44f"
      [] v.kind = "Preview" -> <<112, 114, 101, 118, 105, 101, 119>>           \* b"preview"
      [] v.kind = "Text" -> <<115, 116, 114, 105, 110, 103>>                   \* b"string"
      [] v.kind = "TextVector" ->
            <<115, 116, 114, 105, 110, 103, 118, 101, 99, 116, 111, 114>>      \* b"stringvector"
      [] v.kind = "TileDescription" -> <<116, 105, 108, 101, 100, 101, 115, 99>> \* b"tiledesc"

AttributeValue_write(v, out, long, debug) ==
    CASE v.kind = "I32Box2" -> I32Box2_write(v, out)
      [] v.kind = "F32Box2" -> F32Box2_write(v, out)
      [] v.kind = "I32" -> write_32(v.value, out)
      [] v.kind = "F32" -> write_32(v.value, out)
      [] v.kind = "F64" -> write_64(v.value, out)
      [] v.kind \in {"Rational", "TimeCode", "I32Vec2", "F32Vec2", "I32Vec3", "F32Vec3"} ->
            write_32s(v.value, out)
      [] v.kind = "ChannelList" -> Channel_write_list(v.channels, out, long)
      [] v.kind = "Chromaticities" -> Chromaticities_write(v, out)
      [] v.kind = "Compression" -> Compression_write(v.value, out)
      [] v.kind = "EnvironmentMap" -> EnvironmentMap_write(v.value, out)
      [] v.kind = "KeyCode" -> KeyCode_write(v, out)
      [] v.kind = "LineOrder" -> LineOrder_write(v.value, out)
      [] v.kind \in {"F32Matrix3x3", "F32Matrix4x4"} -> write_f32_array(v.value, out)
      [] v.kind = "Preview" ->
            LET validity == Preview_validate(v, debug)
            IN  IF validity # NoError THEN WriteErr(validity, out) ELSE Preview_write(v, out)
      [] v.kind = "Text" -> write_u8_array(ParsedText_to_text_bytes(v.value), out)
      [] v.kind = "TextVector" -> Text_write_vec_of_i32_sized_texts(v.value, out)
      [] v.kind = "TileDescription" -> TileDescription_write(v, out)

\* ------------------------------------------------------------------------
\* Attribute (attributes.rs, impl Attribute): byte_size, write
\* ------------------------------------------------------------------------

Attribute_byte_size(a) ==
    Text_null_terminated_byte_size(a.name)
        + Len(AttributeValue_kind_name(a.value)) + SequenceEnd_byte_size
        + SizeOf32
        + AttributeValue_byte_size(a.value)

Attribute_write(a, out, long, debug) ==
    AndThen(Text_write_null_terminated(a.name, out, Some(long)), LAMBDA o1 :
    AndThen(Text_write_null_terminated(AttributeValue_kind_name(a.value), o1, Some(long)), LAMBDA o2 :
    AndThen(write_32(AttributeValue_byte_size(a.value), o2), LAMBDA o3 :
    AttributeValue_write(a.value, o3, long, debug))))


\* ------------------------------------------------------------------------
\* The attribute values (attributes.rs): read
\* ------------------------------------------------------------------------

\* Ok(convert(val)) of a successful read, the error of a failed one
MapOk(r, convert(_)) == IF r.ok THEN ReadOk(convert(r.val), r.pos) ELSE r

I32Box2_read(s, pos) ==
    MapOk(read_32s(s, pos, 4), LAMBDA f :
        [kind |-> "I32Box2", x_min |-> f[1], y_min |-> f[2], x_max |-> f[3], y_max |-> f[4]])

F32Box2_read(s, pos) ==
    MapOk(read_32s(s, pos, 4), LAMBDA f :
        [kind |-> "F32Box2", x_min |-> f[1], y_min |-> f[2], x_max |-> f[3], y_max |-> f[4]])

\* an enum read from its number: the variant, or Invalid::Content(Enum(what), Range)
EnumFrom(r, variants, what) ==
    IF ~r.ok THEN r
    ELSE IF r.val \in 0..(Len(variants) - 1) THEN ReadOk(variants[r.val + 1], r.pos)
    ELSE ReadErr(ContentEnum(what, 0, Len(variants) - 1), r.pos)

PixelTypes == << "U32", "F16", "F32" >>

PixelType_read(s, pos) == EnumFrom(read_32(s, pos), PixelTypes, "pixelType")

Channel_read(s, pos) ==
    LET name == Text_read_null_terminated(s, pos)
        pixel_type == PixelType_read(s, name.pos)
        is_linear == EnumFrom(read_u8(s, pixel_type.pos), << FALSE, TRUE >>, "pLinear")
        reserved == read_u8_vec(s, is_linear.pos, 3)
        x_sampling == read_32(s, reserved.pos)
        y_sampling == read_32(s, x_sampling.pos)
    IN  IF ~name.ok THEN name
        ELSE IF ~pixel_type.ok THEN pixel_type
        ELSE IF ~is_linear.ok THEN is_linear
        ELSE IF ~reserved.ok THEN reserved
        ELSE IF ~x_sampling.ok THEN x_sampling
        ELSE IF ~y_sampling.ok THEN y_sampling
        ELSE ReadOk([name |-> name.val, pixel_type |-> pixel_type.val,
                     is_linear |-> is_linear.val,
                     reserved |-> [i \in 1..3 |-> ByteToI8(reserved.val[i])],
                     x_sampling |-> x_sampling.val, y_sampling |-> y_sampling.val],
                    y_sampling.pos)

\* SequenceEnd::has_come: the next byte is consumed if it is the terminator
SequenceEnd_has_come(s, pos) ==
    LET b == read_u8(s, pos)
    IN  IF ~b.ok THEN b
        ELSE IF b.val = 0 THEN ReadOk(TRUE, b.pos)
        ELSE ReadOk(FALSE, pos)

RECURSIVE Channel_read_list_from(_, _, _)
Channel_read_list_from(s, pos, channels) ==
    LET end == SequenceEnd_has_come(s, pos)
    IN  IF ~end.ok THEN end
        ELSE IF end.val THEN ReadOk(channels, end.pos)
        ELSE LET channel == Channel_read(s, end.pos)
             IN  IF ~channel.ok THEN channel
                 ELSE Channel_read_list_from(s, channel.pos, Append(channels, channel.val))

Channel_read_list(s, pos) == Channel_read_list_from(s, pos, <<>>)

Chromaticities_read(s, pos) ==
    MapOk(read_32s(s, pos, 8), LAMBDA f :
        [kind |-> "Chromaticities", red_x |-> f[1], red_y |-> f[2],
         green_x |-> f[3], green_y |-> f[4], blue_x |-> f[5], blue_y |-> f[6],
         white_x |-> f[7], white_y |-> f[8]])

Compression_read(s, pos) == EnumFrom(read_u8(s, pos), Compressions, "compression")

EnvironmentMap_read(s, pos) == EnumFrom(read_u8(s, pos), EnvironmentMaps, "envmap")

KeyCode_read(s, pos) ==
    MapOk(read_32s(s, pos, 7), LAMBDA f :
        [kind |-> "KeyCode", film_manufacturer_code |-> f[1], film_type |-> f[2],
         film_roll_prefix |-> f[3], count |-> f[4], perforation_offset |-> f[5],
         perforations_per_frame |-> f[6], perforations_per_count |-> f[7]])

LineOrder_read(s, pos) == EnumFrom(read_u8(s, pos), LineOrders, "lineOrder")

\* Preview::read: the buffer holds width * height * 4 bytes (u32 arithmetic),
\* whatever the size of the attribute; validate then compares the same product
Preview_read(s, pos, debug) ==
    LET width == read_32(s, pos)
        height == read_32(s, width.pos)
        wh == MulU32(width.val, height.val)
        whc == MulU32(wh.val, 4)
        pixel_data == read_u8_vec(s, height.pos, whc.val)
        preview == [kind |-> "Preview", width |-> width.val, height |-> height.val,
                    pixel_data |-> [i \in 1..Len(pixel_data.val) |-> ByteToI8(pixel_data.val[i])]]
    IN  IF ~width.ok THEN width
        ELSE IF ~height.ok THEN height
        ELSE IF debug /\ (wh.overflow \/ whc.overflow)
        THEN ReadErr(Panic("attempt to multiply with overflow"), height.pos)
        ELSE IF ~pixel_data.ok THEN pixel_data
        ELSE IF Preview_validate(preview, debug) # NoError
        THEN ReadErr(Preview_validate(preview, debug), pixel_data.pos)
        ELSE ReadOk(preview, pixel_data.pos)

TileDescription_read(s, pos) ==
    LET x_size == read_32(s, pos)
        y_size == read_32(s, x_size.pos)
        mode == read_u8(s, y_size.pos)
        level_mode == mode.val % 16
        rounding_mode == mode.val \div 16
    IN  IF ~x_size.ok THEN x_size
        ELSE IF ~y_size.ok THEN y_size
        ELSE IF ~mode.ok THEN mode
        ELSE IF level_mode > 2 THEN ReadErr(ContentEnum("level mode", 0, 2), mode.pos)
        ELSE IF rounding_mode > 1 THEN ReadErr(ContentEnum("rounding mode", 0, 1), mode.pos)
        ELSE ReadOk([kind |-> "TileDescription", x_size |-> x_size.val, y_size |-> y_size.val,
                     level_mode |-> LevelModes[level_mode + 1],
                     rounding_mode |-> RoundingModes[rounding_mode + 1]], mode.pos)

\* a tuple variant of n 32-bit fields
Tuple_read(s, pos, kind, n) ==
    MapOk(read_32s(s, pos, n), LAMBDA f : [kind |-> kind, value |-> f])

\* a variant of one field
Single(r, kind) == MapOk(r, LAMBDA x : [kind |-> kind, value |-> x])

AttributeValue_read(s, pos, kind, byte_size, debug) ==
    CASE kind = <<98, 111, 120, 50, 105>> -> I32Box2_read(s, pos)                   \* b"box2i"
      [] kind = <<98, 111, 120, 50, 102>> -> F32Box2_read(s, pos)                   \* b"box2f"
      [] kind = <<105, 110, 116>> -> Single(read_32(s, pos), "I32")                 \* b"int"
      [] kind = <<102, 108, 111, 97, 116>> -> Single(read_32(s, pos), "F32")        \* b"float"
      [] kind = <<100, 111, 117, 98, 108, 101>> -> Single(read_64(s, pos), "F64")   \* b"double"
      [] kind = <<114, 97, 116, 105, 111, 110, 97, 108>> ->
            Tuple_read(s, pos, "Rational", 2)                                       \* b"rational"
      [] kind = <<116, 105, 109, 101, 99, 111, 100, 101>> ->
            Tuple_read(s, pos, "TimeCode", 2)                                       \* b"timecode"
      [] kind = <<118, 50, 105>> -> Tuple_read(s, pos, "I32Vec2", 2)                \* b"v2i"
      [] kind = <<118, 50, 102>> -> Tuple_read(s, pos, "F32Vec2", 2)                \* b"v2f"
      [] kind = <<118, 51, 105>> -> Tuple_read(s, pos, "I32Vec3", 3)                \* b"v3i"
      [] kind = <<118, 51, 102>> -> Tuple_read(s, pos, "F32Vec3", 3)                \* b"v3f"
      [] kind = <<99, 104, 108, 105, 115, 116>> ->                                  \* b"chlist"
            MapOk(Channel_read_list(s, pos), LAMBDA c : [kind |-> "ChannelList", channels |-> c])
      [] kind = <<99, 104, 114, 111, 109, 97, 116, 105, 99, 105, 116, 105, 101, 115>> ->
            Chromaticities_read(s, pos)                                             \* b"chromaticities"
      [] kind = <<99, 111, 109, 112, 114, 101, 115, 115, 105, 111, 110>> ->
            Single(Compression_read(s, pos), "Compression")                         \* b"compression"
      [] kind = <<101, 110, 118, 109, 97, 112>> ->
            Single(EnvironmentMap_read(s, pos), "EnvironmentMap")                   \* b"envmap"
      [] kind = <<107, 101, 121, 99, 111, 100, 101>> -> KeyCode_read(s, pos)        \* b"keycode"
      [] kind = <<108, 105, 110, 101, 79, 114, 100, 101, 114>> ->
            Single(LineOrder_read(s, pos), "LineOrder")                             \* b"lineOrder"
      [] kind = <<109, 51, 51, 102>> -> Tuple_read(s, pos, "F32Matrix3x3", 9)       \* b"m33f"
      [] kind = <<109, 52, 52, 102>> -> Tuple_read(s, pos, "F32Matrix4x4", 16)      \* b"m44f"
      [] kind = <<112, 114, 101, 118, 105, 101, 119>> -> Preview_read(s, pos, debug) \* b"preview"
      [] kind = <<115, 116, 114, 105, 110, 103>> ->                                 \* b"string"
            MapOk(Text_read_sized(s, pos, byte_size),
                  LAMBDA t : [kind |-> "Text", value |-> ParsedText_parse(t)])
      [] kind = <<115, 116, 114, 105, 110, 103, 118, 101, 99, 116, 111, 114>> ->    \* b"stringvector"
            Single(Text_read_vec_of_i32_sized(s, pos, byte_size, debug), "TextVector")
      [] kind = <<116, 105, 108, 101, 100, 101, 115, 99>> -> TileDescription_read(s, pos) \* b"tiledesc"
      [] OTHER -> ReadErr(UnknownAttributeType(byte_size), pos)

\* ------------------------------------------------------------------------
\* Attribute (attributes.rs, impl Attribute): read
\* ------------------------------------------------------------------------

Attribute_read(s, pos, debug) ==
    LET name == Text_read_null_terminated(s, pos)
        kind == Text_read_null_terminated(s, name.pos)
        size == read_32(s, kind.pos)
        value == AttributeValue_read(s, size.pos, kind.val, size.val, debug)
    IN  IF ~name.ok THEN name
        ELSE IF ~kind.ok THEN kind
        ELSE IF ~size.ok THEN size
        ELSE MapOk(value, LAMBDA v : [name |-> name.val, value |-> v])


\* ------------------------------------------------------------------------
\* The meta-data decoder (decode.rs): attribute values
\* ------------------------------------------------------------------------

Invalid(what) == Error("Invalid", what, "", 0)
Missing(what) == Error("Missing", what, "", 0)

\* skip_null_byte_if_present that does not go back over a byte that is not 0
skip_null_byte_if_present_consuming(s, pos) ==
    LET b == read_u8(s, pos)
    IN  IF ~b.ok THEN b
        ELSE ReadOk(b.val = 0, b.pos)

\* skip_null_byte_if_present: the next byte is read, and the stream seeks
\* back over it unless it is 0
skip_null_byte_if_present(s, pos) ==
    LET b == read_u8(s, pos)
    IN  IF ~b.ok THEN b
        ELSE IF b.val = 0 THEN ReadOk(TRUE, b.pos)
        ELSE ReadOk(FALSE, b.pos - 1)

null_terminated_text(s, pos) ==
    LET zeros == { i \in 1..Len(s) : i > pos /\ s[i] = 0 }
        first == CHOOSE i \in zeros : \A j \in zeros : i <= j
    IN  IF zeros = {} THEN ReadErr(IoError, pos)
        ELSE ReadOk(SubSeq(s, pos + 1, first - 1), first)

\* i32_sized_text with the length already known (Some(expected_attribute_bytes),
\* cast to i32) or read from the stream: a length under 512 is read at once,
\* a longer one 512 bytes at once and the rest byte by byte; a negative
\* length is the size of a buffer no allocation can have
i32_sized_text_of_length(s, pos, string_byte_length) ==
    IF string_byte_length < 0 THEN ReadErr(Panic("capacity overflow"), pos)
    ELSE IF Remaining(s, pos) >= string_byte_length
    THEN ReadOk(SubSeq(s, pos + 1, pos + string_byte_length), pos + string_byte_length)
    ELSE ReadErr(IoError, pos)

i32_sized_text(s, pos) ==
    LET string_byte_length == read_32(s, pos)
    IN  IF ~string_byte_length.ok THEN string_byte_length
        ELSE i32_sized_text_of_length(s, string_byte_length.pos, string_byte_length.val)

box2i(s, pos) ==
    MapOk(read_32s(s, pos, 4), LAMBDA f :
        [kind |-> "I32Box2", x_min |-> f[1], y_min |-> f[2], x_max |-> f[3], y_max |-> f[4]])

box2f(s, pos) ==
    MapOk(read_32s(s, pos, 4), LAMBDA f :
        [kind |-> "F32Box2", x_min |-> f[1], y_min |-> f[2], x_max |-> f[3], y_max |-> f[4]])

\* an enum read from its number: the variant, or Error::Invalid(what)
InvalidUnless(r, variants, what) ==
    IF ~r.ok THEN r
    ELSE IF r.val \in 0..(Len(variants) - 1) THEN ReadOk(variants[r.val + 1], r.pos)
    ELSE ReadErr(Invalid(what), r.pos)

channel(s, pos) ==
    LET name == null_terminated_text(s, pos)
        pixel_type == InvalidUnless(read_32(s, name.pos), PixelTypes, "pixel_type")
        is_linear == InvalidUnless(read_u8(s, pixel_type.pos), << FALSE, TRUE >>, "pLinear")
        reserved == read_u8_vec(s, is_linear.pos, 3)
        x_sampling == read_32(s, reserved.pos)
        y_sampling == read_32(s, x_sampling.pos)
    IN  IF ~name.ok THEN name
        ELSE IF ~pixel_type.ok THEN pixel_type
        ELSE IF ~is_linear.ok THEN is_linear
        ELSE IF ~reserved.ok THEN reserved
        ELSE IF ~x_sampling.ok THEN x_sampling
        ELSE IF ~y_sampling.ok THEN y_sampling
        ELSE ReadOk([name |-> name.val, pixel_type |-> pixel_type.val,
                     is_linear |-> is_linear.val,
                     reserved |-> [i \in 1..3 |-> ByteToI8(reserved.val[i])],
                     x_sampling |-> x_sampling.val, y_sampling |-> y_sampling.val],
                    y_sampling.pos)

RECURSIVE channel_list_from(_, _, _)
channel_list_from(s, pos, channels) ==
    LET end == skip_null_byte_if_present(s, pos)
    IN  IF ~end.ok THEN end
        ELSE IF end.val THEN ReadOk(channels, end.pos)
        ELSE LET c == channel(s, end.pos)
             IN  IF ~c.ok THEN c
                 ELSE channel_list_from(s, c.pos, Append(channels, c.val))

channel_list(s, pos) == channel_list_from(s, pos, <<>>)

chromaticities(s, pos) ==
    MapOk(read_32s(s, pos, 8), LAMBDA f :
        [kind |-> "Chromaticities", red_x |-> f[1], red_y |-> f[2],
         green_x |-> f[3], green_y |-> f[4], blue_x |-> f[5], blue_y |-> f[6],
         white_x |-> f[7], white_y |-> f[8]])

compression(s, pos) ==
    InvalidUnless(read_u8(s, pos),
        << "None", "RLE", "ZIPSingle", "ZIP", "PIZ", "PXR24", "B44", "B44A" >>, "compression")

environment_map(s, pos) == InvalidUnless(read_u8(s, pos), EnvironmentMaps, "environment map")

key_code(s, pos) ==
    MapOk(read_32s(s, pos, 7), LAMBDA f :
        [kind |-> "KeyCode", film_manufacturer_code |-> f[1], film_type |-> f[2],
         film_roll_prefix |-> f[3], count |-> f[4], perforation_offset |-> f[5],
         perforations_per_frame |-> f[6], perforations_per_count |-> f[7]])

line_order(s, pos) == InvalidUnless(read_u8(s, pos), LineOrders, "line order")

f32_matrix_3x3(s, pos) == read_32s(s, pos, 9)

f32_matrix_4x4(s, pos) == read_32s(s, pos, 16)

\* i32_sized_text_vector: texts are read until the processed bytes reach the
\* attribute size (a usize comparison of a u32); the debug assertion
\* compares them at the end
RECURSIVE i32_sized_text_vector_from(_, _, _, _, _)
i32_sized_text_vector_from(s, pos, attribute_value_byte_size, processed_bytes, result) ==
    IF attribute_value_byte_size < 0 \/ processed_bytes < attribute_value_byte_size
    THEN LET text == i32_sized_text(s, pos)
         IN  IF ~text.ok THEN text
             ELSE i32_sized_text_vector_from(s, text.pos, attribute_value_byte_size,
                                             processed_bytes + 4 + Len(text.val),
                                             Append(result, text.val))
    ELSE ReadOk([texts |-> result, processed_bytes |-> processed_bytes], pos)

i32_sized_text_vector(s, pos, attribute_value_byte_size, debug) ==
    LET r == i32_sized_text_vector_from(s, pos, attribute_value_byte_size, 0, <<>>)
    IN  IF ~r.ok THEN r
        ELSE IF debug /\ r.val.processed_bytes # attribute_value_byte_size
        THEN ReadErr(Panic("assertion failed: processed_bytes == attribute_value_byte_size"), r.pos)
        ELSE ReadOk(r.val.texts, r.pos)

\* preview: the buffer holds width * height * 4 bytes (u32 arithmetic),
\* whatever the size of the attribute
preview(s, pos, debug) ==
    LET width == read_32(s, pos)
        height == read_32(s, width.pos)
        wh == MulU32(width.val, height.val)
        whc == MulU32(wh.val, 4)
        pixel_data == read_u8_vec(s, height.pos, whc.val)
    IN  IF ~width.ok THEN width
        ELSE IF ~height.ok THEN height
        ELSE IF debug /\ (wh.overflow \/ whc.overflow)
        THEN ReadErr(Panic("attempt to multiply with overflow"), height.pos)
        ELSE IF ~pixel_data.ok THEN pixel_data
        ELSE ReadOk([kind |-> "Preview", width |-> width.val, height |-> height.val,
                     pixel_data |-> pixel_data.val], pixel_data.pos)

tile_description(s, pos) ==
    LET x_size == read_32(s, pos)
        y_size == read_32(s, x_size.pos)
        mode == read_u8(s, y_size.pos)
        level_mode == mode.val % 16
        rounding_mode == mode.val \div 16
    IN  IF ~x_size.ok THEN x_size
        ELSE IF ~y_size.ok THEN y_size
        ELSE IF ~mode.ok THEN mode
        ELSE IF level_mode > 2 THEN ReadErr(Invalid("level mode"), mode.pos)
        ELSE IF rounding_mode > 1 THEN ReadErr(Invalid("rounding mode"), mode.pos)
        ELSE ReadOk([kind |-> "TileDescription", x_size |-> x_size.val, y_size |-> y_size.val,
                     level_mode |-> LevelModes[level_mode + 1],
                     rounding_mode |-> RoundingModes[rounding_mode + 1]], mode.pos)

attribute_value(s, pos, kind, byte_size, debug) ==
    CASE kind = <<98, 111, 120, 50, 105>> -> box2i(s, pos)                          \* b"box2i"
      [] kind = <<98, 111, 120, 50, 102>> -> box2f(s, pos)                          \* b"box2f"
      [] kind = <<105, 110, 116>> -> Single(read_32(s, pos), "I32")                 \* b"int"
      [] kind = <<102, 108, 111, 97, 116>> -> Single(read_32(s, pos), "F32")        \* b"float"
      [] kind = <<100, 111, 117, 98, 108, 101>> -> Single(read_64(s, pos), "F64")   \* b"double"
      [] kind = <<114, 97, 116, 105, 111, 110, 97, 108>> ->
            Tuple_read(s, pos, "Rational", 2)                                       \* b"rational"
      [] kind = <<116, 105, 109, 101, 99, 111, 100, 101>> ->
            Tuple_read(s, pos, "TimeCode", 2)                                       \* b"timecode"
      [] kind = <<118, 50, 105>> -> Tuple_read(s, pos, "I32Vec2", 2)                \* b"v2i"
      [] kind = <<118, 50, 102>> -> Tuple_read(s, pos, "F32Vec2", 2)                \* b"v2f"
      [] kind = <<118, 51, 105>> -> Tuple_read(s, pos, "I32Vec3", 3)                \* b"v3i"
      [] kind = <<118, 51, 102>> -> Tuple_read(s, pos, "F32Vec3", 3)                \* b"v3f"
      [] kind = <<99, 104, 108, 105, 115, 116>> ->                                  \* b"chlist"
            MapOk(channel_list(s, pos), LAMBDA c : [kind |-> "ChannelList", channels |-> c])
      [] kind = <<99, 104, 114, 111, 109, 97, 116, 105, 99, 105, 116, 105, 101, 115>> ->
            chromaticities(s, pos)                                                  \* b"chromaticities"
      [] kind = <<99, 111, 109, 112, 114, 101, 115, 115, 105, 111, 110>> ->
            Single(compression(s, pos), "Compression")                              \* b"compression"
      [] kind = <<101, 110, 118, 109, 97, 112>> ->
            Single(environment_map(s, pos), "EnvironmentMap")                       \* b"envmap"
      [] kind = <<107, 101, 121, 99, 111, 100, 101>> -> key_code(s, pos)            \* b"keycode"
      [] kind = <<108, 105, 110, 101, 79, 114, 100, 101, 114>> ->
            Single(line_order(s, pos), "LineOrder")                                 \* b"lineOrder"
      [] kind = <<109, 51, 51, 102>> -> Single(f32_matrix_3x3(s, pos), "F32Matrix3x3") \* b"m33f"
      [] kind = <<109, 52, 52, 102>> -> Single(f32_matrix_4x4(s, pos), "F32Matrix4x4") \* b"m44f"
      [] kind = <<112, 114, 101, 118, 105, 101, 119>> -> preview(s, pos, debug)     \* b"preview"
      [] kind = <<115, 116, 114, 105, 110, 103>> ->                                 \* b"string"
            Single(i32_sized_text_of_length(s, pos, byte_size), "Text")
      [] kind = <<115, 116, 114, 105, 110, 103, 118, 101, 99, 116, 111, 114>> ->    \* b"stringvector"
            Single(i32_sized_text_vector(s, pos, byte_size, debug), "TextVector")
      [] kind = <<116, 105, 108, 101, 100, 101, 115, 99>> -> tile_description(s, pos) \* b"tiledesc"
      [] OTHER -> ReadErr(UnknownAttributeType(byte_size), pos)

\* attribute: Attribute { name, kind, value }
attribute_read(s, pos, debug) ==
    LET name == null_terminated_text(s, pos)
        kind == null_terminated_text(s, name.pos)
        size == read_32(s, kind.pos)
        value == attribute_value(s, size.pos, kind.val, size.val, debug)
    IN  IF ~name.ok THEN name
        ELSE IF ~kind.ok THEN kind
        ELSE IF ~size.ok THEN size
        ELSE MapOk(value, LAMBDA v : [name |-> name.val, kind |-> kind.val, value |-> v])

\* ------------------------------------------------------------------------
\* The meta-data decoder (decode.rs): the header
\* ------------------------------------------------------------------------

\* the names of the required attributes (attributes.rs, mod required)
TILES == <<116, 105, 108, 101, 115>>    \* b"tiles"
NAME == <<110, 97, 109, 101>>    \* b"name"
TYPE == <<116, 121, 112, 101>>    \* b"type"
VERSION == <<118, 101, 114, 115, 105, 111, 110>>    \* b"version"
CHUNKS == <<99, 104, 117, 110, 107, 67, 111, 117, 110, 116>>    \* b"chunkCount"
MAX_SAMPLES == <<109, 97, 120, 83, 97, 109, 112, 108, 101, 115, 80, 101, 114, 80, 105, 120, 101, 108>>    \* b"maxSamplesPerPixel"
CHANNELS == <<99, 104, 97, 110, 110, 101, 108, 115>>    \* b"channels"
COMPRESSION == <<99, 111, 109, 112, 114, 101, 115, 115, 105, 111, 110>>    \* b"compression"
DATA_WINDOW == <<100, 97, 116, 97, 87, 105, 110, 100, 111, 119>>    \* b"dataWindow"
DISPLAY_WINDOW == <<100, 105, 115, 112, 108, 97, 121, 87, 105, 110, 100, 111, 119>>    \* b"displayWindow"
LINE_ORDER == <<108, 105, 110, 101, 79, 114, 100, 101, 114>>    \* b"lineOrder"
PIXEL_ASPECT == <<112, 105, 120, 101, 108, 65, 115, 112, 101, 99, 116, 82, 97, 116, 105, 111>>    \* b"pixelAspectRatio"
WINDOW_CENTER == <<115, 99, 114, 101, 101, 110, 87, 105, 110, 100, 111, 119, 67, 101, 110, 116, 101, 114>>    \* b"screenWindowCenter"
WINDOW_WIDTH == <<115, 99, 114, 101, 101, 110, 87, 105, 110, 100, 111, 119, 87, 105, 100, 116, 104>>    \* b"screenWindowWidth"

\* Option<usize>
NoIndex == [some |-> FALSE, index |-> 0]
SomeIndex(index) == [some |-> TRUE, index |-> index]

\* the local variables tiles, name, kind, ... of header, all None
NoIndices ==
    [f \in {"tiles", "name", "kind", "version", "chunk_count", "max_samples_per_pixel", "channels",
             "compression", "data_window", "display_window", "line_order", "pixel_aspect", "screen_window_center", "screen_window_width"}
        |-> NoIndex]

\* the local variable the name of an attribute is matched to ("" for none)
IndexOfName(name) ==
    CASE name = TILES -> "tiles"
      [] name = NAME -> "name"
      [] name = TYPE -> "kind"
      [] name = VERSION -> "version"
      [] name = CHUNKS -> "chunk_count"
      [] name = MAX_SAMPLES -> "max_samples_per_pixel"
      [] name = CHANNELS -> "channels"
      [] name = COMPRESSION -> "compression"
      [] name = DATA_WINDOW -> "data_window"
      [] name = DISPLAY_WINDOW -> "display_window"
      [] name = LINE_ORDER -> "line_order"
      [] name = PIXEL_ASPECT -> "pixel_aspect"
      [] name = WINDOW_CENTER -> "screen_window_center"
      [] name = WINDOW_WIDTH -> "screen_window_width"
      [] OTHER -> ""

\* read.seek(SeekFrom::Current(bytes_to_skip as i64)), bytes_to_skip a u32:
\* a position that 31 bits do not hold is kept as the largest they hold,
\* which is past the end of every stream
seek_current_none(pos, bytes_to_skip) == pos

seek_current(pos, bytes_to_skip) ==
    IF bytes_to_skip < 0 \/ bytes_to_skip > 2147483647 - pos
    THEN 2147483647
    ELSE pos + bytes_to_skip

\* the first of the always required indices that is None, in the order of
\* the fields of AttributeIndices, as the Error::Missing of it
RequiredIndices ==
    << << "channels", "channels" >>, << "compression", "compression" >>,
       << "data_window", "data window" >>, << "display_window", "display window" >>,
       << "line_order", "line order" >>, << "pixel_aspect", "pixel aspect ratio" >>,
       << "screen_window_center", "screen window center" >>,
       << "screen_window_width", "screen window width" >> >>

FirstMissing_last(idx) ==
    LET absent == { i \in 1..Len(RequiredIndices) : ~idx[RequiredIndices[i][1]].some }
        last == CHOOSE i \in absent : \A j \in absent : i >= j
    IN  IF absent = {} THEN NoError ELSE Missing(RequiredIndices[last][2])

FirstMissing(idx) ==
    LET absent == { i \in 1..Len(RequiredIndices) : ~idx[RequiredIndices[i][1]].some }
        first == CHOOSE i \in absent : \A j \in absent : i <= j
    IN  IF absent = {} THEN NoError ELSE Missing(RequiredIndices[first][2])

\* Header::is_valid: tiles if tiled, name, type and chunkCount if multi-part,
\* maxSamplesPerPixel if deep
Header_is_valid(idx, version) ==
    /\ version.is_single_tile => idx["tiles"].some
    /\ version.has_multiple_parts =>
          idx["name"].some /\ idx["kind"].some /\ idx["chunk_count"].some
    /\ version.has_deep_data => idx["max_samples_per_pixel"].some

Version(is_single_tile, has_long_names, has_deep_data, has_multiple_parts) ==
    [file_format_version |-> 2, is_single_tile |-> is_single_tile,
     has_long_names |-> has_long_names, has_deep_data |-> has_deep_data,
     has_multiple_parts |-> has_multiple_parts]

\* ------------------------------------------------------------------------
\* The meta-data decoder (decode.rs): magic number and version
\* ------------------------------------------------------------------------

NotEXR == Error("NotEXR", "", "", 0)
NotSupported(what) == Error("NotSupported", what, "", 0)

MAGIC_NUMBER == << 1, 2, 3, 118 >>

identify_exr(s, pos) ==
    MapOk(read_u8_vec(s, pos, 4), LAMBDA magic_num : magic_num = MAGIC_NUMBER)

skip_identification_bytes_unchecked(s, pos) == identify_exr(s, pos)

skip_identification_bytes(s, pos) ==
    LET is_exr == identify_exr(s, pos)
    IN  IF ~is_exr.ok THEN is_exr
        ELSE IF is_exr.val THEN is_exr
        ELSE ReadErr(NotEXR, is_exr.pos)

\* version_and_flags.get_bit(i) on the pattern of an i32
get_bit(word, i) == (word \div (2 ^ i)) % 2 = 1

\* version: the number is version_and_flags & 0x000F
version(s, pos) ==
    MapOk(read_32(s, pos), LAMBDA version_and_flags :
        [file_format_version |-> version_and_flags % 16,
         is_single_tile |-> get_bit(version_and_flags, 9),
         has_long_names |-> get_bit(version_and_flags, 10),
         has_deep_data |-> get_bit(version_and_flags, 11),
         has_multiple_parts |-> get_bit(version_and_flags, 12)])

\* Version::is_valid: a single tile excludes multiple parts and deep data,
\* deep data needs multiple parts
Version_is_valid(v) ==
    IF v.has_multiple_parts THEN ~v.is_single_tile
    ELSE ~v.has_deep_data

\* ------------------------------------------------------------------------
\* The meta-data decoder (decode.rs): offset tables and chunks
\* ------------------------------------------------------------------------

\* a Header: its attributes and the indices of the required ones
Header(attrs, idx) == [attributes |-> attrs, indices |-> idx]

\* header.attributes[index].value
ValueAt(header, index) == header.attributes[index.index + 1].value

\* for _ in 0..entry_count { offsets.push(read_u64(read)?) }
read_offsets_one_less(s, pos, entry_count) ==
    IF entry_count = 0 THEN ReadOk(<<>>, pos)
    ELSE IF Remaining(s, pos) \div 8 >= entry_count - 1
    THEN ReadOk([i \in 1..(entry_count - 1) |-> read_64(s, pos + 8 * (i - 1)).val],
                pos + 8 * (entry_count - 1))
    ELSE ReadErr(IoError, pos)

read_offsets(s, pos, entry_count) ==
    IF Remaining(s, pos) \div 8 >= entry_count
    THEN ReadOk([i \in 1..entry_count |-> read_64(s, pos + 8 * (i - 1)).val],
                pos + 8 * entry_count)
    ELSE ReadErr(IoError, pos)

\* offset_table: the chunk count as usize is the entry count; a negative
\* one is a capacity no Vec can have; without a chunk count the types of
\* dataWindow, tiles and compression are looked at and the count is not
\* computed
offset_table(s, pos, file_ver, header, debug) ==
    IF header.indices["chunk_count"].some
    THEN LET value == ValueAt(header, header.indices["chunk_count"])
         IN  IF value.kind # "I32" THEN ReadErr(Invalid("chunkCount type"), pos)
             ELSE IF value.value < 0 THEN ReadErr(Panic("capacity overflow"), pos)
             ELSE read_offsets(s, pos, value.value)
    ELSE IF debug /\ file_ver.has_multiple_parts
    THEN ReadErr(Panic("Multi-Part header does not have chunkCount, should have been checked"), pos)
    ELSE IF ValueAt(header, header.indices["data_window"]).kind # "I32Box2"
    THEN ReadErr(Invalid("dataWindow type"), pos)
    ELSE IF ~header.indices["tiles"].some
    THEN ReadErr(Panic("tiles missing, should have been checked"), pos)
    ELSE IF ValueAt(header, header.indices["tiles"]).kind # "TileDescription"
    THEN ReadErr(Invalid("tileDesc type"), pos)
    ELSE IF ValueAt(header, header.indices["compression"]).kind # "Compression"
    THEN ReadErr(Invalid("compression type"), pos)
    ELSE ReadErr(NotSupported("computing chunk count by considering data_window, tiles, and compression"), pos)

\* scan_line_block, tile_block, deep_scan_line_block, deep_tile_block
Unimplemented == Panic("not yet implemented")

\* the result of a chunk: Ok or Err, the position, and the block decoder the
\* chunk was handed to ("" for none)
ChunkResult(err, pos_after, block) == [ok |-> FALSE, err |-> err, pos |-> pos_after, block |-> block]

\* headers.get(part_number as usize), part_number a u64 as two 32-bit words
PartInRange(part_number, hdrs) ==
    part_number[2] = 0 /\ part_number[1] >= 0 /\ part_number[1] < Len(hdrs)

multi_part_chunk_first_part(s, pos, hdrs) ==
    LET part_number == read_64(s, pos)
        header == hdrs[1]
        kind == ValueAt(header, header.indices["kind"])
    IN  IF ~part_number.ok THEN ChunkResult(part_number.err, pos, "")
        ELSE IF ~PartInRange(part_number.val, hdrs)
        THEN ChunkResult(Invalid("chunk part number"), part_number.pos, "")
        ELSE IF ~header.indices["kind"].some
        THEN ChunkResult(Missing("multiplart 'type' attribute"), part_number.pos, "")
        ELSE IF kind.kind # "Text"
        THEN ChunkResult(Invalid("multipart 'type' attribute-type"), part_number.pos, "")
        ELSE IF kind.value = SCAN_LINE THEN ChunkResult(Unimplemented, part_number.pos, "scan_line_block")
        ELSE IF kind.value = TILE THEN ChunkResult(Unimplemented, part_number.pos, "tile_block")
        ELSE IF kind.value = DEEP_SCAN_LINE
        THEN ChunkResult(Unimplemented, part_number.pos, "deep_scan_line_block")
        ELSE IF kind.value = DEEP_TILE THEN ChunkResult(Unimplemented, part_number.pos, "deep_tile_block")
        ELSE ChunkResult(Invalid("multi-part block type"), part_number.pos, "")

multi_part_chunk(s, pos, hdrs) ==
    LET part_number == read_64(s, pos)
        header == hdrs[part_number.val[1] + 1]
        kind == ValueAt(header, header.indices["kind"])
    IN  IF ~part_number.ok THEN ChunkResult(part_number.err, pos, "")
        ELSE IF ~PartInRange(part_number.val, hdrs)
        THEN ChunkResult(Invalid("chunk part number"), part_number.pos, "")
        ELSE IF ~header.indices["kind"].some
        THEN ChunkResult(Missing("multiplart 'type' attribute"), part_number.pos, "")
        ELSE IF kind.kind # "Text"
        THEN ChunkResult(Invalid("multipart 'type' attribute-type"), part_number.pos, "")
        ELSE IF kind.value = SCAN_LINE THEN ChunkResult(Unimplemented, part_number.pos, "scan_line_block")
        ELSE IF kind.value = TILE THEN ChunkResult(Unimplemented, part_number.pos, "tile_block")
        ELSE IF kind.value = DEEP_SCAN_LINE
        THEN ChunkResult(Unimplemented, part_number.pos, "deep_scan_line_block")
        ELSE IF kind.value = DEEP_TILE THEN ChunkResult(Unimplemented, part_number.pos, "deep_tile_block")
        ELSE ChunkResult(Invalid("multi-part block type"), part_number.pos, "")

\* single_part_chunks: the block decoder is chosen by the type attribute and
\* called once for each entry of the offset table
single_part_chunks(pos, hdrs, tables) ==
    LET header == hdrs[1]
        offset_table_len == Len(tables[1])
        kind == ValueAt(header, header.indices["kind"])
    IN  IF ~header.indices["kind"].some
        THEN ChunkResult(Missing("single-part 'type' attribute"), pos, "")
        ELSE IF kind.kind # "Text"
        THEN ChunkResult(Invalid("single-part 'type' attribute-type"), pos, "")
        ELSE IF kind.value = SCAN_LINE
        THEN IF offset_table_len = 0 THEN [ok |-> TRUE, err |-> NoError, pos |-> pos, block |-> ""]
             ELSE ChunkResult(Unimplemented, pos, "scan_line_block")
        ELSE IF kind.value = TILE
        THEN IF offset_table_len = 0 THEN [ok |-> TRUE, err |-> NoError, pos |-> pos, block |-> ""]
             ELSE ChunkResult(Unimplemented, pos, "tile_block")
        ELSE ChunkResult(Invalid("single-part block type"), pos, "")

\* ------------------------------------------------------------------------
\* RoundingMode (attributes.rs, impl RoundingMode)
\* ------------------------------------------------------------------------

\* a u32 is held as its 32-bit pattern: number > 1, number & 1, number >> 1
\* and 2^k on patterns
UGt1(number) == number < 0 \/ number > 1

LowBit(number) == number % 2

ShiftRight1(number) ==
    IF number >= 0 THEN number \div 2
    ELSE ((number + 2147483647) + 1) \div 2 + 1073741824

RECURSIVE floor_log_2_from(_, _)
floor_log_2_from(number, log) ==
    IF UGt1(number) THEN floor_log_2_from(ShiftRight1(number), log + 1) ELSE log

floor_log_2(number) == floor_log_2_from(number, 0)

RECURSIVE ceil_log_2_from(_, _, _)
ceil_log_2_from(number, log, round_up) ==
    IF UGt1(number)
    THEN ceil_log_2_from(ShiftRight1(number), log + 1,
                         IF LowBit(number) # 0 THEN 1 ELSE round_up)
    ELSE log + round_up

ceil_log_2_always_up(number) == floor_log_2(number) + 1

ceil_log_2(number) == ceil_log_2_from(number, 0, 0)

RoundingMode_log2(mode, number) ==
    IF mode = "Down" THEN floor_log_2(number) ELSE ceil_log_2(number)

\* RoundingMode::divide that rounds Up also when the division is even
RoundingMode_divide_always_up(mode, dividend, divisor) ==
    LET result == dividend \div divisor
    IN  IF mode = "Up" THEN result + 1 ELSE result

RoundingMode_divide(mode, dividend, divisor) ==
    LET result == dividend \div divisor
    IN  IF mode = "Up" /\ result * divisor # dividend THEN result + 1 ELSE result

\* ------------------------------------------------------------------------
\* The values the model writes
\* ------------------------------------------------------------------------

\* a text of n bytes 'a'
TextOfLen(n) == Repeat(97, n)

Age == <<97, 103, 101>>           \* b"age"
Hello == <<104, 101, 108, 108, 111>> \* b"hello"
Green == <<71>>                   \* b"G"
Red == <<82>>                     \* b"R"

\* f32 bit patterns: 1.0, -1.0, 0.0, and those of the repository's test
F32One == 127 * 8388608
F32MinusOne == 0 - 1082130432
F32TestBox == [kind |-> "F32Box2", x_min |-> 1102799648, y_min |-> 1135385969,
               x_max |-> 1199966080, y_max |-> 1078457309]
\* the f64 9.114939599234 of the repository's test, <<low, high>>
F64Test == << 1559720805, 1075985113 >>

BoxCoordinates == {-1, 1}
I32Boxes == { [kind |-> "I32Box2", x_min |-> a, y_min |-> b, x_max |-> c, y_max |-> d] :
                a \in BoxCoordinates, b \in BoxCoordinates,
                c \in BoxCoordinates, d \in BoxCoordinates }
F32Coordinates == {F32MinusOne, F32One}
F32Boxes == { [kind |-> "F32Box2", x_min |-> a, y_min |-> b, x_max |-> c, y_max |-> d] :
                a \in F32Coordinates, b \in F32Coordinates,
                c \in F32Coordinates, d \in F32Coordinates } \cup {F32TestBox}

Channel(name, pixel_type, is_linear, reserved, x_sampling, y_sampling) ==
    [name |-> name, pixel_type |-> pixel_type, is_linear |-> is_linear,
     reserved |-> reserved, x_sampling |-> x_sampling, y_sampling |-> y_sampling]
GreenChannel == Channel(Green, "F16", FALSE, <<0, 0, 0>>, 1, 2)
RedChannel == Channel(Red, "F32", TRUE, <<0, 1, -1>>, 1, 2)
ChannelLists == { <<>>, <<GreenChannel>>, <<GreenChannel, RedChannel>>,
                  <<RedChannel, GreenChannel>> }

PreviewDimensions == {0, 1, 2, 16384, 65536}
Previews == { [kind |-> "Preview", width |-> w, height |-> h, pixel_data |-> Repeat(-1, n)] :
                w \in PreviewDimensions, h \in PreviewDimensions,
                n \in 0..(4 * MaxPreviewPixels + 1) }

ParsedTexts == { ParsedText("ScanLine", <<>>), ParsedText("Tile", <<>>),
                 ParsedText("DeepScanLine", <<>>), ParsedText("DeepTile", <<>>),
                 ParsedText("Arbitrary", Hello), ParsedText("Arbitrary", <<>>) }

TextVectors == { <<>>, <<Hello>>, <<Hello, Green>>, << <<>>, Green >> }

TileSizes == {0, 31, -1, -2}      \* -1 and -2 are the u32 4294967295 and 4294967294
TileDescriptions == { [kind |-> "TileDescription", x_size |-> x, y_size |-> y,
                       level_mode |-> LevelModes[l], rounding_mode |-> RoundingModes[r]] :
                        x \in TileSizes, y \in TileSizes, l \in 1..3, r \in 1..2 }

Tuple(kind, value) == [kind |-> kind, value |-> value]

\* the values of a variant
ValuesOf(kind) ==
    CASE kind = "I32Box2" -> I32Boxes
      [] kind = "F32Box2" -> F32Boxes
      [] kind = "I32" -> { Tuple(kind, v) : v \in {-1, 0, 923} }
      [] kind = "F32" -> { Tuple(kind, v) : v \in {0, F32One, F32MinusOne} }
      [] kind = "F64" -> { Tuple(kind, v) : v \in { <<0, 0>>, F64Test } }
      [] kind = "Rational" -> { Tuple(kind, v) : v \in { <<-1, 3>>, <<1, -1>> } }
      [] kind = "TimeCode" -> { Tuple(kind, v) : v \in { <<0, -1>>, <<7, 9>> } }
      [] kind = "I32Vec2" -> { Tuple(kind, <<1, -2>>) }
      [] kind = "F32Vec2" -> { Tuple(kind, <<F32One, F32MinusOne>>) }
      [] kind = "I32Vec3" -> { Tuple(kind, <<1, -2, 3>>) }
      [] kind = "F32Vec3" -> { Tuple(kind, <<F32One, F32MinusOne, 0>>) }
      [] kind = "ChannelList" -> { [kind |-> kind, channels |-> c] : c \in ChannelLists }
      [] kind = "Chromaticities" ->
            { [kind |-> kind, red_x |-> 1, red_y |-> 2, green_x |-> 3, green_y |-> 4,
               blue_x |-> 5, blue_y |-> 6, white_x |-> F32One, white_y |-> F32MinusOne] }
      [] kind = "Compression" -> { Tuple(kind, Compressions[i]) : i \in 1..8 }
      [] kind = "EnvironmentMap" -> { Tuple(kind, EnvironmentMaps[i]) : i \in 1..2 }
      [] kind = "KeyCode" ->
            { [kind |-> kind, film_manufacturer_code |-> 1, film_type |-> 2,
               film_roll_prefix |-> 3, count |-> c, perforation_offset |-> 5,
               perforations_per_frame |-> 6, perforations_per_count |-> 7] : c \in {-4, 4} }
      [] kind = "LineOrder" -> { Tuple(kind, LineOrders[i]) : i \in 1..3 }
      [] kind = "F32Matrix3x3" -> { Tuple(kind, [i \in 1..9 |-> i - 5]) }
      [] kind = "F32Matrix4x4" -> { Tuple(kind, [i \in 1..16 |-> F32One + i]) }
      [] kind = "Preview" -> Previews
      [] kind = "Text" -> { Tuple(kind, p) : p \in ParsedTexts }
      [] kind = "TextVector" -> { Tuple(kind, v) : v \in TextVectors }
      [] kind = "TileDescription" -> TileDescriptions

\* the 23 variants of AttributeValue
Kinds == { "I32Box2", "F32Box2", "ChannelList", "Chromaticities", "Compression", "F64",
           "EnvironmentMap", "F32", "I32", "KeyCode", "LineOrder", "F32Matrix3x3",
           "F32Matrix4x4", "Preview", "Text", "TextVector", "TileDescription",
           "TimeCode", "Rational", "I32Vec2", "F32Vec2", "I32Vec3", "F32Vec3" }

Attribute(name, value) == [name |-> name, value |-> value]

\* the attribute before any has been chosen
NoAttribute == Attribute(<<>>, [kind |-> "none"])

VARIABLES
    attribute,      \* the Attribute handed to Attribute::write
    long_names,     \* the long_names flag of the write
    debug_build,    \* whether the build checks overflow and debug assertions
    bytes,          \* the Vec<u8> the attribute is written to and read from
    written,        \* the result of Attribute::write
    parsed,         \* the result of Attribute::read
    division,       \* the arguments and the result of RoundingMode::divide
    pos,            \* the position of the stream the header is read from
    attributes,     \* the attributes of the header read so far
    indices,        \* the indices of the required attributes met so far
    file_version,   \* the Version the header is read under
    header_result,  \* the result of header
    logarithm,      \* the argument and the results of floor_log_2, ceil_log_2 and log2
    headers,        \* the headers read so far
    offset_tables,  \* the offset tables read so far
    chunks,         \* the block decoders the chunks read so far were handed to
    file_result,    \* the result of read_seekable_buffer
    string_byte_length, \* the length i32_sized_text has read
    text_bytes,     \* the Vec<u8> i32_sized_text reads the text into
    pc              \* the step the program is at

vars == << attribute, long_names, debug_build, bytes, written, parsed, division,
           pos, attributes, indices, file_version, header_result,
           logarithm, headers, offset_tables, chunks, file_result,
           string_byte_length, text_bytes, pc >>

file_vars == << headers, offset_tables, chunks, file_result >>

text_vars == << string_byte_length, text_bytes >>

codec_vars == << attribute, long_names, debug_build, bytes, written, parsed, division, logarithm,
                string_byte_length, text_bytes >>

header_vars == << pos, attributes, indices, file_version, header_result >>

NoVersion == Version(FALSE, FALSE, FALSE, FALSE)

NoHeaderResult == [ok |-> FALSE, err |-> NoError]

NoHeader ==
    /\ pos = 0
    /\ attributes = <<>>
    /\ indices = NoIndices
    /\ file_version = NoVersion
    /\ header_result = NoHeaderResult

NoLogarithm == [mode |-> "Down", number |-> 0, floor |-> 0, ceil |-> 0, result |-> 0]

NoFileResult == [ok |-> FALSE, err |-> NoError]

NoFile ==
    /\ logarithm = NoLogarithm
    /\ headers = <<>>
    /\ offset_tables = <<>>
    /\ chunks = <<>>
    /\ file_result = NoFileResult

NoDivision == [mode |-> "Down", dividend |-> 0, divisor |-> 1, result |-> 0]

NoText ==
    /\ string_byte_length = 0
    /\ text_bytes = <<>>

\* ------------------------------------------------------------------------
\* Writing an attribute to a buffer and reading it back
\* (attributes.rs, test::attribute_write_read_roundtrip_and_byte_size)
\* ------------------------------------------------------------------------

\* an attribute of any variant under a short name; an attribute or a channel
\* whose name has any length up to MaxTextLen
InitAttribute ==
    \/ \E kind \in Kinds : \E value \in ValuesOf(kind) : attribute = Attribute(Age, value)
    \/ \E n \in 0..MaxTextLen : attribute = Attribute(TextOfLen(n), Tuple("I32", 923))
    \/ \E n \in 0..MaxTextLen :
          attribute = Attribute(Age, [kind |-> "ChannelList", channels |->
                          << GreenChannel, Channel(TextOfLen(n), "U32", FALSE, <<1, 2, 7>>, 0, 0) >>])

Init ==
    /\ InitAttribute
    /\ long_names \in BOOLEAN
    /\ debug_build \in BOOLEAN
    /\ bytes = <<>>
    /\ written = WriteOk(<<>>)
    /\ NoText
    /\ parsed = ReadOk(<<>>, 0)
    /\ division = NoDivision
    /\ NoHeader
    /\ NoFile
    /\ pc = "start"

\* attribute.write(&mut bytes, long_names)
AttributeWrite ==
    /\ pc = "start"
    /\ written' = Attribute_write(attribute, bytes, long_names, debug_build)
    /\ bytes' = written'.out
    /\ pc' = "written"
    /\ UNCHANGED << text_vars, attribute, long_names, debug_build, parsed, division, header_vars, file_vars, logarithm >>

\* Attribute::read(&mut Cursor::new(bytes)), after write(..).unwrap()
AttributeRead ==
    /\ pc = "written"
    /\ written.ok
    /\ parsed' = Attribute_read(bytes, 0, debug_build)
    /\ pc' = "read"
    /\ UNCHANGED << text_vars, attribute, long_names, debug_build, bytes, written, division, header_vars, file_vars, logarithm >>

Next == AttributeWrite \/ AttributeRead

Spec == Init /\ [][Next]_vars

\* ------------------------------------------------------------------------
\* RoundingMode::divide applied to its arguments (attributes.rs, test::rounding_up)
\* ------------------------------------------------------------------------

DivideInit ==
    /\ attribute = NoAttribute
    /\ long_names = FALSE
    /\ debug_build = FALSE
    /\ bytes = <<>>
    /\ written = WriteOk(<<>>)
    /\ NoText
    /\ parsed = ReadOk(<<>>, 0)
    /\ \E mode \in {"Down", "Up"} : \E dividend \in 0..MaxDividend : \E divisor \in 1..MaxDivisor :
          division = [mode |-> mode, dividend |-> dividend, divisor |-> divisor, result |-> 0]
    /\ NoHeader
    /\ NoFile
    /\ pc = "start"

Divide ==
    /\ pc = "start"
    /\ division' = [division EXCEPT
                      !.result = RoundingMode_divide(division.mode, division.dividend, division.divisor)]
    /\ pc' = "divided"
    /\ UNCHANGED << text_vars, attribute, long_names, debug_build, bytes, written, parsed, header_vars, file_vars, logarithm >>

DivideNext == Divide

DivideSpec == DivideInit /\ [][DivideNext]_vars

\* ------------------------------------------------------------------------
\* RoundingMode::log2, floor_log_2 and ceil_log_2 applied to a number
\* ------------------------------------------------------------------------

\* the pattern of 2^k, k in 0..31
PowerOfTwo(k) == IF k = 31 THEN (0 - 2147483647) - 1 ELSE 2 ^ k

\* the numbers up to MaxLogNumber, the powers of two, their neighbours and
\* the largest u32
LogNumbers ==
    (0..MaxLogNumber)
        \cup { PowerOfTwo(k) : k \in 0..31 }
        \cup { PowerOfTwo(k) - 1 : k \in 0..30 } \cup { 2147483647 }
        \cup { PowerOfTwo(k) + 1 : k \in 0..31 }

LogInit ==
    /\ attribute = NoAttribute
    /\ long_names = FALSE
    /\ debug_build = FALSE
    /\ bytes = <<>>
    /\ written = WriteOk(<<>>)
    /\ NoText
    /\ parsed = ReadOk(<<>>, 0)
    /\ division = NoDivision
    /\ NoHeader
    /\ \E mode \in {"Down", "Up"} : \E number \in LogNumbers :
          logarithm = [mode |-> mode, number |-> number, floor |-> 0, ceil |-> 0, result |-> 0]
    /\ headers = <<>>
    /\ offset_tables = <<>>
    /\ chunks = <<>>
    /\ file_result = NoFileResult
    /\ pc = "start"

Log2 ==
    /\ pc = "start"
    /\ logarithm' = [logarithm EXCEPT
                       !.floor = floor_log_2(logarithm.number),
                       !.ceil = ceil_log_2(logarithm.number),
                       !.result = RoundingMode_log2(logarithm.mode, logarithm.number)]
    /\ pc' = "logged"
    /\ UNCHANGED << text_vars, attribute, long_names, debug_build, bytes, written, parsed, division,
                    header_vars, file_vars >>

LogNext == Log2

LogSpec == LogInit /\ [][LogNext]_vars

\* ------------------------------------------------------------------------
\* Reading a version word (decode.rs, version)
\* ------------------------------------------------------------------------

\* the words up to MaxVersionWord, every combination of bits 8 to 13 with
\* version 2, and version 2 with one further bit
VersionWords ==
    (0..MaxVersionWord)
        \cup { 2 + 256 * flags : flags \in 0..63 }
        \cup { 2 + 2 ^ k : k \in 0..30 } \cup { 2 + PowerOfTwo(31), 0 - 1 }

VersionInit ==
    /\ attribute = NoAttribute
    /\ long_names = FALSE
    /\ debug_build = FALSE
    /\ bytes \in { LE32(word) : word \in VersionWords }
    /\ written = WriteOk(<<>>)
    /\ NoText
    /\ parsed = ReadOk(<<>>, 0)
    /\ division = NoDivision
    /\ NoHeader
    /\ NoFile
    /\ pc = "version"

\* version(read)
VersionRead ==
    /\ pc = "version"
    /\ LET v == version(bytes, pos)
       IN  /\ v.ok
           /\ file_version' = v.val
           /\ pos' = v.pos
    /\ pc' = "version read"
    /\ UNCHANGED << codec_vars, file_vars, attributes, indices, header_result >>

VersionNext == VersionRead

VersionSpec == VersionInit /\ [][VersionNext]_vars

\* ------------------------------------------------------------------------
\* Reading an attribute from bytes of any origin (Attribute::read)
\* ------------------------------------------------------------------------

\* name, type tag, declared size and payload, as a file lays an attribute out
Item(name, kind, size, payload) == name \o <<0>> \o kind \o <<0>> \o LE32(size) \o payload

PreviewTag == <<112, 114, 101, 118, 105, 101, 119>>    \* b"preview"

\* previews of any origin: the declared size, the dimensions and the number
\* of pixel bytes that follow are independent of each other
ForeignPreviews ==
    { Item(<<112>>, PreviewTag, size, LE32(w) \o LE32(h) \o Repeat(31, n)) :
        size \in {0 - 1, 0, 8} \cup { 8 + 4 * k : k \in 1..(MaxPreviewPixels * MaxPreviewPixels) },
        w \in 0..MaxPreviewPixels, h \in 0..MaxPreviewPixels,
        n \in 0..(4 * MaxPreviewPixels) }

\* a text with its length before it, as a text vector holds it
SizedText(text) == LE32(Len(text)) \o text

\* string and stringvector attributes of any origin: the declared size and
\* the texts that follow are independent of each other, and four bytes of
\* what comes next in the file may follow
ForeignTexts ==
    { Item(<<115>>, AttributeValue_kind_name([kind |-> kind]), size, Concat(texts) \o next) :
        kind \in {"Text", "TextVector"},
        size \in {0, 5, 9, 10, 14},
        texts \in { <<>>, << SizedText(Hello) >>, << SizedText(Hello), SizedText(Green) >> },
        next \in { <<>>, LE32(0) } }

ReadInit ==
    /\ attribute = NoAttribute
    /\ long_names = FALSE
    /\ debug_build \in BOOLEAN
    /\ bytes \in ForeignPreviews \cup ForeignTexts
    /\ written = WriteOk(<<>>)
    /\ NoText
    /\ parsed = ReadOk(<<>>, 0)
    /\ division = NoDivision
    /\ NoHeader
    /\ NoFile
    /\ pc = "foreign"

\* Attribute::read(&mut Cursor::new(bytes))
ForeignRead ==
    /\ pc = "foreign"
    /\ parsed' = Attribute_read(bytes, 0, debug_build)
    /\ pc' = "foreign read"
    /\ UNCHANGED << text_vars, attribute, long_names, debug_build, bytes, written, division, header_vars, file_vars, logarithm >>

ReadNext == ForeignRead

ReadSpec == ReadInit /\ [][ReadNext]_vars

\* ------------------------------------------------------------------------
\* Reading a header (decode.rs, header)
\* ------------------------------------------------------------------------

F32Zero == LE32(0)

\* the eight attributes every header has, one channel G in the channel list
RequiredItems ==
    << Item(CHANNELS, <<99, 104, 108, 105, 115, 116>>, 19,
            <<71, 0>> \o LE32(1) \o <<0>> \o <<0, 0, 0>> \o LE32(1) \o LE32(1) \o <<0>>),
       Item(COMPRESSION, <<99, 111, 109, 112, 114, 101, 115, 115, 105, 111, 110>>, 1, <<0>>),
       Item(DATA_WINDOW, <<98, 111, 120, 50, 105>>, 16, LE32(0) \o LE32(0) \o LE32(3) \o LE32(3)),
       Item(DISPLAY_WINDOW, <<98, 111, 120, 50, 105>>, 16, LE32(0) \o LE32(0) \o LE32(3) \o LE32(3)),
       Item(LINE_ORDER, <<108, 105, 110, 101, 79, 114, 100, 101, 114>>, 1, <<0>>),
       Item(PIXEL_ASPECT, <<102, 108, 111, 97, 116>>, 4, LE32(F32One)),
       Item(WINDOW_CENTER, <<118, 50, 102>>, 8, F32Zero \o F32Zero),
       Item(WINDOW_WIDTH, <<102, 108, 111, 97, 116>>, 4, LE32(F32One)) >>

\* further attributes: of a type no reader knows with the size of the
\* payload, with size 0, with a size under the payload's and with the
\* largest size; a chunk count; a data window, which the required
\* attributes hold as well
ExtraItems ==
    { Item(<<120>>, <<120, 121, 122>>, 3, <<7, 8, 9>>),
      Item(<<120>>, <<120, 121, 122>>, 0, <<>>),
      Item(<<120>>, <<120, 121, 122>>, 1, <<7, 8, 9>>),
      Item(<<120>>, <<120, 121, 122>>, 0 - 1, <<7>>),
      Item(CHUNKS, <<105, 110, 116>>, 4, LE32(1)),
      Item(DATA_WINDOW, <<98, 111, 120, 50, 105>>, 16, LE32(1) \o LE32(1) \o LE32(2) \o LE32(2)) }

\* the required attributes without those at the places drop
RequiredWithout(drop) ==
    Concat([i \in 1..Len(RequiredItems) |-> IF i \in drop THEN <<>> ELSE RequiredItems[i]])

\* all required attributes, and all but the first, but two that are not
\* neighbours, but two in the middle
RequiredParts == { RequiredWithout(drop) : drop \in { {}, {1}, {3, 8}, {5, 6} } }

\* the streams a header is read from: further attributes and the required
\* attributes in any order, then the terminator or the end of the stream
\* (no attribute of these streams has arithmetic or an assertion that a
\* build checks, so one build reads them)
HeaderStreams ==
    { Concat(parts) \o end :
        parts \in UNION { [1..n -> ExtraItems \cup RequiredParts] : n \in 0..MaxParts },
        end \in { <<0>>, <<>> } }

HeaderInit ==
    /\ attribute = NoAttribute
    /\ long_names = FALSE
    /\ debug_build = FALSE
    /\ bytes \in HeaderStreams
    /\ written = WriteOk(<<>>)
    /\ NoText
    /\ parsed = ReadOk(<<>>, 0)
    /\ division = NoDivision
    /\ pos = 0
    /\ attributes = <<>>
    /\ indices = NoIndices
    /\ file_version \in { Version(FALSE, FALSE, FALSE, FALSE), Version(FALSE, FALSE, FALSE, TRUE) }
    /\ header_result = NoHeaderResult
    /\ NoFile
    /\ pc = "loop"

\* while !skip_null_byte_if_present(read)?
HeaderLoop ==
    /\ pc = "loop"
    /\ LET end == skip_null_byte_if_present(bytes, pos)
       IN  IF ~end.ok
           THEN /\ header_result' = [ok |-> FALSE, err |-> end.err]
                /\ pc' = "failed"
                /\ pos' = end.pos
           ELSE /\ header_result' = header_result
                /\ pc' = IF end.val THEN "finish" ELSE "attribute"
                /\ pos' = end.pos
    /\ UNCHANGED << codec_vars, file_vars, attributes, indices, file_version >>

\* an index that is the place after the one the attribute is pushed to
NextIndex_after_push(attrs) == Len(attrs) + 1

\* let index = attributes.len(): the place the attribute is pushed to
NextIndex(attrs) == Len(attrs)

\* the loop of header that seeks back to where an attribute of unknown type began
HeaderAttribute_rereading ==
    /\ pc = "attribute"
    /\ LET a == attribute_read(bytes, pos, debug_build)
           index == NextIndex(attributes)
           field == IndexOfName(a.val.name)
       IN  IF ~a.ok /\ a.err.kind = "UnknownAttributeType"
           THEN /\ pos' = pos
                /\ pc' = "loop"
                /\ UNCHANGED << attributes, indices, header_result >>
           ELSE IF ~a.ok
           THEN /\ header_result' = [ok |-> FALSE, err |-> a.err]
                /\ pc' = "failed"
                /\ pos' = a.pos
                /\ UNCHANGED << attributes, indices >>
           ELSE /\ indices' = IF field = "" THEN indices
                              ELSE [indices EXCEPT ![field] = SomeIndex(index)]
                /\ attributes' = Append(attributes, a.val)
                /\ pos' = a.pos
                /\ pc' = "loop"
                /\ UNCHANGED header_result
    /\ UNCHANGED << codec_vars, file_vars, file_version >>

\* match attribute(read) { .. }: an unknown type is skipped, another error
\* is returned, an attribute is pushed and its index saved under its name
HeaderAttribute ==
    /\ pc = "attribute"
    /\ LET a == attribute_read(bytes, pos, debug_build)
           index == NextIndex(attributes)
           field == IndexOfName(a.val.name)
       IN  IF ~a.ok /\ a.err.kind = "UnknownAttributeType"
           THEN /\ pos' = seek_current(a.pos, a.err.n)
                /\ pc' = "loop"
                /\ UNCHANGED << attributes, indices, header_result >>
           ELSE IF ~a.ok
           THEN /\ header_result' = [ok |-> FALSE, err |-> a.err]
                /\ pc' = "failed"
                /\ pos' = a.pos
                /\ UNCHANGED << attributes, indices >>
           ELSE /\ indices' = IF field = "" THEN indices
                              ELSE [indices EXCEPT ![field] = SomeIndex(index)]
                /\ attributes' = Append(attributes, a.val)
                /\ pos' = a.pos
                /\ pc' = "loop"
                /\ UNCHANGED header_result
    /\ UNCHANGED << codec_vars, file_vars, file_version >>

\* the Header is built, the first absent required index is Error::Missing,
\* and the header is returned if it is valid under the file version
HeaderFinish ==
    /\ pc = "finish"
    /\ IF FirstMissing(indices) # NoError
       THEN header_result' = [ok |-> FALSE, err |-> FirstMissing(indices)] /\ pc' = "failed"
       ELSE IF Header_is_valid(indices, file_version)
       THEN header_result' = [ok |-> TRUE, err |-> NoError] /\ pc' = "done"
       ELSE header_result' = [ok |-> FALSE, err |-> Invalid("header")] /\ pc' = "failed"
    /\ UNCHANGED << codec_vars, file_vars, pos, attributes, indices, file_version >>

HeaderNext == HeaderLoop \/ HeaderAttribute \/ HeaderFinish

HeaderSpec == HeaderInit /\ [][HeaderNext]_vars

\* the thread in header is at a position it leaves: loop, attribute and
\* finish are the positions HeaderNext steps from, and each of its steps
\* changes pc
HeaderProceeds ==
    /\ pc \in {"loop", "attribute", "finish"}
    /\ pc' \in {"loop", "attribute", "finish", "done", "failed"}

\* header runs to its end: the function is one thread that takes its next
\* step whenever it has one (a read of the in-memory stream returns at once,
\* nothing else is scheduled); the fairness is on the position so that its
\* enabling condition is the guard on pc
HeaderLiveSpec == HeaderSpec /\ WF_pc(HeaderProceeds)

\* ------------------------------------------------------------------------
\* Reading a file (decode.rs, read_seekable_buffer)
\* ------------------------------------------------------------------------

TypeTag == <<115, 116, 114, 105, 110, 103>>    \* b"string"
TileDescTag == <<116, 105, 108, 101, 100, 101, 115, 99>>    \* b"tiledesc"
IntTag == <<105, 110, 116>>    \* b"int"
FloatTag == <<102, 108, 111, 97, 116>>    \* b"float"

\* a type attribute of a text, a type attribute that is an int, or none
TypeItems ==
    { Item(TYPE, TypeTag, Len(text), text) :
        text \in { SCAN_LINE, TILE, DEEP_SCAN_LINE, DEEP_TILE, <<120>> } }
        \cup { Item(TYPE, IntTag, 4, LE32(1)), <<>> }

\* a chunk count of 0..MaxChunks, a negative one, one that is a float, or none
ChunkCountItems ==
    { Item(CHUNKS, IntTag, 4, LE32(n)) : n \in (0..MaxChunks) \cup { 0 - 1 } }
        \cup { Item(CHUNKS, FloatTag, 4, LE32(F32One)), <<>> }

TilesItems == { Item(TILES, TileDescTag, 9, LE32(2) \o LE32(2) \o <<0>>), <<>> }

NameItem == Item(NAME, TypeTag, 1, <<112>>)

\* the header of a single-part file: the required attributes, any type, any
\* chunk count, tiles or none, and the terminator
SinglePartHeaders ==
    { Concat(RequiredItems) \o type \o chunk_count \o tiles \o <<0>> :
        type \in TypeItems, chunk_count \in ChunkCountItems, tiles \in TilesItems }

\* a header of a multi-part file: a name, any type but none, one chunk
MultiPartHeaders ==
    { Concat(RequiredItems) \o NameItem \o type \o Item(CHUNKS, IntTag, 4, LE32(1)) \o <<0>> :
        type \in TypeItems \ { <<>> } }

\* the part numbers of the chunks of a multi-part file: 0, 1, 2 and 2^32
PartNumbers == { << 0, 0 >>, << 1, 0 >>, << 2, 0 >>, << 0, 1 >> }

Offset == LE64(<< 0, 0 >>)

\* the version word of version 2 with the flags of bits 9, 11 and 12
VersionWord(is_single_tile, has_deep_data, has_multiple_parts) ==
    2 + (IF is_single_tile THEN 2 ^ 9 ELSE 0) + (IF has_deep_data THEN 2 ^ 11 ELSE 0)
      + (IF has_multiple_parts THEN 2 ^ 12 ELSE 0)

PlainVersionWord == VersionWord(FALSE, FALSE, FALSE)
SingleTileVersionWord == VersionWord(TRUE, FALSE, FALSE)
MultiPartVersionWord == VersionWord(FALSE, FALSE, TRUE)
DeepVersionWord == VersionWord(FALSE, TRUE, FALSE)

\* the version words of deep data without multiple parts and of a single
\* tile with deep data or multiple parts
InvalidVersionWords ==
    { DeepVersionWord, VersionWord(TRUE, TRUE, FALSE), VersionWord(TRUE, FALSE, TRUE),
      VersionWord(TRUE, TRUE, TRUE) }

\* the files: single-part files with up to MaxChunks offsets, single-part
\* files without chunk count with the four offsets of their four rows or
\* tiles, multi-part files of one or two parts with a chunk, files of
\* another magic number, of the versions that are not valid, of deep data in
\* multiple parts, and files that end early
FileStreams ==
    { MAGIC_NUMBER \o LE32(word) \o header \o Repeat(0, 8 * n) :
        word \in { PlainVersionWord, SingleTileVersionWord },
        header \in SinglePartHeaders, n \in 0..MaxChunks }
    \cup
    { MAGIC_NUMBER \o LE32(word) \o Concat(RequiredItems) \o type \o tiles \o <<0>>
            \o Repeat(0, 8 * 4) :
        word \in { PlainVersionWord, SingleTileVersionWord },
        type \in TypeItems, tiles \in TilesItems }
    \cup
    { MAGIC_NUMBER \o LE32(MultiPartVersionWord) \o first \o second \o <<0>>
            \o Offset \o (IF second = <<>> THEN <<>> ELSE Offset) \o LE64(part_number) :
        first \in MultiPartHeaders, second \in MultiPartHeaders \cup { <<>> },
        part_number \in PartNumbers }
    \cup
    { magic \o LE32(PlainVersionWord) \o header :
        magic \in { << 1, 2, 3, 119 >>, << 118, 47, 49, 1 >>, << 0, 0, 0, 0 >>, << 1, 2, 3 >>, <<>> },
        header \in { h \in SinglePartHeaders : Len(h) = Len(Concat(RequiredItems)) + 1 } }
    \cup
    { MAGIC_NUMBER \o LE32(word) \o Concat(RequiredItems) \o <<0>> : word \in InvalidVersionWords }
    \cup
    { MAGIC_NUMBER \o LE32(VersionWord(FALSE, TRUE, TRUE)) \o header \o <<0>> :
        header \in MultiPartHeaders }
    \cup
    { MAGIC_NUMBER \o LE32(DeepVersionWord), MAGIC_NUMBER \o << 2, 0 >>,
      MAGIC_NUMBER \o LE32(MultiPartVersionWord) \o <<0>>,
      MAGIC_NUMBER \o LE32(MultiPartVersionWord) }

FileInit ==
    /\ attribute = NoAttribute
    /\ long_names = FALSE
    /\ debug_build \in BOOLEAN
    /\ bytes \in FileStreams
    /\ written = WriteOk(<<>>)
    /\ NoText
    /\ parsed = ReadOk(<<>>, 0)
    /\ division = NoDivision
    /\ NoHeader
    /\ NoFile
    /\ pc = "magic"

FileErr(err) == [ok |-> FALSE, err |-> err]
FileOk == [ok |-> TRUE, err |-> NoError]

\* skip_identification_bytes(read)?
FileMagic ==
    /\ pc = "magic"
    /\ LET magic == skip_identification_bytes(bytes, pos)
       IN  IF magic.ok
           THEN pos' = magic.pos /\ pc' = "meta data" /\ file_result' = file_result
           ELSE pos' = magic.pos /\ pc' = "file failed" /\ file_result' = FileErr(magic.err)
    /\ UNCHANGED << codec_vars, headers, offset_tables, chunks,
                    attributes, indices, file_version, header_result >>

\* meta_data that reads the headers of a version that is not valid
MetaDataVersion_unchecked ==
    /\ pc = "meta data"
    /\ LET v == version(bytes, pos)
       IN  IF ~v.ok
           THEN /\ file_result' = FileErr(v.err) /\ pc' = "file failed"
                /\ UNCHANGED << pos, file_version >>
           ELSE /\ file_version' = v.val /\ pos' = v.pos /\ pc' = "headers"
                /\ file_result' = file_result
    /\ UNCHANGED << codec_vars, headers, offset_tables, chunks, attributes, indices, header_result >>

\* meta_data: version(read)?, and version.is_valid()
MetaDataVersion ==
    /\ pc = "meta data"
    /\ LET v == version(bytes, pos)
       IN  IF ~v.ok
           THEN /\ file_result' = FileErr(v.err) /\ pc' = "file failed"
                /\ UNCHANGED << pos, file_version >>
           ELSE IF ~Version_is_valid(v.val)
           THEN /\ file_result' = FileErr(Invalid("version value combination"))
                /\ pc' = "file failed" /\ pos' = v.pos /\ file_version' = v.val
           ELSE /\ file_version' = v.val /\ pos' = v.pos /\ pc' = "headers"
                /\ file_result' = file_result
    /\ UNCHANGED << codec_vars, headers, offset_tables, chunks, attributes, indices, header_result >>

\* headers: header(read, version) is called once, or, with multiple parts,
\* while !skip_null_byte_if_present(read)?
HeadersLoop ==
    /\ pc = "headers"
    /\ LET end == IF file_version.has_multiple_parts
                  THEN skip_null_byte_if_present(bytes, pos)
                  ELSE ReadOk(FALSE, pos)
       IN  IF ~end.ok
           THEN /\ file_result' = FileErr(end.err) /\ pc' = "file failed"
                /\ UNCHANGED << pos, attributes, indices, header_result >>
           ELSE IF end.val
           THEN /\ pos' = end.pos /\ pc' = "offset tables"
                /\ UNCHANGED << file_result, attributes, indices, header_result >>
           ELSE /\ pos' = end.pos /\ pc' = "loop"
                /\ attributes' = <<>> /\ indices' = NoIndices
                /\ header_result' = NoHeaderResult
                /\ file_result' = file_result
    /\ UNCHANGED << codec_vars, headers, offset_tables, chunks, file_version >>

\* headers.push(header(read, version)?)
HeadersPush ==
    /\ pc \in { "done", "failed" }
    /\ IF header_result.ok
       THEN /\ headers' = Append(headers, Header(attributes, indices))
            /\ pc' = IF file_version.has_multiple_parts THEN "headers" ELSE "offset tables"
            /\ file_result' = file_result
       ELSE /\ file_result' = FileErr(header_result.err) /\ pc' = "file failed"
            /\ headers' = headers
    /\ UNCHANGED << codec_vars, offset_tables, chunks, header_vars >>

\* offset_tables: tables.push(offset_table(read, version, &headers[i])?)
OffsetTable ==
    /\ pc = "offset tables"
    /\ Len(offset_tables) < Len(headers)
    /\ LET table == offset_table(bytes, pos, file_version,
                                 headers[Len(offset_tables) + 1], debug_build)
       IN  IF table.ok
           THEN /\ offset_tables' = Append(offset_tables, table.val)
                /\ pos' = table.pos
                /\ UNCHANGED << file_result, pc >>
           ELSE /\ file_result' = FileErr(table.err) /\ pc' = "file failed"
                /\ UNCHANGED << offset_tables, pos >>
    /\ UNCHANGED << codec_vars, headers, chunks, attributes, indices, file_version, header_result >>

\* Ok(MetaData { version, headers, offset_tables })
MetaDataOk ==
    /\ pc = "offset tables"
    /\ Len(offset_tables) = Len(headers)
    /\ pc' = "chunks"
    /\ UNCHANGED << codec_vars, file_vars, header_vars >>

\* the number of chunks the offset tables announce
RECURSIVE TotalLen(_)
TotalLen(tables) == IF tables = <<>> THEN 0 ELSE Len(Head(tables)) + TotalLen(Tail(tables))

\* multi_part_chunks: chunks.push(multi_part_chunk(read, meta_data)?), once
\* for each entry of each offset table
MultiPartChunks ==
    /\ pc = "chunks"
    /\ file_version.has_multiple_parts
    /\ IF Len(chunks) = TotalLen(offset_tables)
       THEN file_result' = FileOk /\ pc' = "file done" /\ UNCHANGED << chunks, pos >>
       ELSE LET chunk == multi_part_chunk(bytes, pos, headers)
            IN  /\ chunks' = IF chunk.block = "" THEN chunks ELSE Append(chunks, chunk.block)
                /\ pos' = chunk.pos
                /\ file_result' = FileErr(chunk.err)
                /\ pc' = "file failed"
    /\ UNCHANGED << codec_vars, headers, offset_tables, attributes, indices, file_version, header_result >>

\* Chunks::SinglePart(single_part_chunks(read, meta_data)?)
SinglePartChunks ==
    /\ pc = "chunks"
    /\ ~file_version.has_multiple_parts
    /\ LET result == single_part_chunks(pos, headers, offset_tables)
       IN  /\ chunks' = IF result.block = "" THEN chunks ELSE Append(chunks, result.block)
           /\ file_result' = IF result.ok THEN FileOk ELSE FileErr(result.err)
           /\ pc' = IF result.ok THEN "file done" ELSE "file failed"
    /\ UNCHANGED << codec_vars, headers, offset_tables, header_vars >>

FileNext ==
    \/ FileMagic \/ MetaDataVersion \/ HeadersLoop
    \/ HeaderLoop \/ HeaderAttribute \/ HeaderFinish \/ HeadersPush
    \/ OffsetTable \/ MetaDataOk \/ MultiPartChunks \/ SinglePartChunks

FileSpec == FileInit /\ [][FileNext]_vars

\* ------------------------------------------------------------------------
\* Reading the meta data of a file with each seek a step of its own
\* (decode.rs, meta_data; skip_null_byte_if_present as read_u8 and seek)
\* ------------------------------------------------------------------------

\* read_u8(read)? == 0 of skip_null_byte_if_present in the loop of header
HeaderPeek ==
    /\ pc = "loop"
    /\ LET byte == read_u8(bytes, pos)
       IN  IF ~byte.ok
           THEN /\ header_result' = [ok |-> FALSE, err |-> byte.err]
                /\ pc' = "failed"
                /\ pos' = byte.pos
           ELSE /\ header_result' = header_result
                /\ pc' = IF byte.val = 0 THEN "finish" ELSE "seek back"
                /\ pos' = byte.pos
    /\ UNCHANGED << codec_vars, file_vars, attributes, indices, file_version >>

\* read.seek(SeekFrom::Current(-1))? of skip_null_byte_if_present
HeaderSeekBack ==
    /\ pc = "seek back"
    /\ pos' = pos - 1
    /\ pc' = "attribute"
    /\ UNCHANGED << codec_vars, file_vars, attributes, indices, file_version, header_result >>

\* read_u8(read)? == 0 of skip_null_byte_if_present in the loop of headers
HeadersPeek ==
    /\ pc = "headers"
    /\ LET byte == IF file_version.has_multiple_parts
                   THEN read_u8(bytes, pos)
                   ELSE ReadOk(1, pos)
       IN  IF ~byte.ok
           THEN /\ file_result' = FileErr(byte.err) /\ pc' = "file failed"
                /\ UNCHANGED << pos, attributes, indices, header_result >>
           ELSE IF byte.val = 0
           THEN /\ pos' = byte.pos /\ pc' = "offset tables"
                /\ UNCHANGED << file_result, attributes, indices, header_result >>
           ELSE /\ pos' = byte.pos
                /\ pc' = IF file_version.has_multiple_parts THEN "headers seek back" ELSE "loop"
                /\ attributes' = <<>> /\ indices' = NoIndices
                /\ header_result' = NoHeaderResult
                /\ file_result' = file_result
    /\ UNCHANGED << codec_vars, headers, offset_tables, chunks, file_version >>

HeadersSeekBack ==
    /\ pc = "headers seek back"
    /\ pos' = pos - 1
    /\ pc' = "loop"
    /\ UNCHANGED << codec_vars, file_vars, attributes, indices, file_version, header_result >>

SeekNext ==
    \/ FileMagic \/ MetaDataVersion \/ HeadersPeek \/ HeadersSeekBack
    \/ HeaderPeek \/ HeaderSeekBack \/ HeaderAttribute \/ HeaderFinish \/ HeadersPush
    \/ OffsetTable \/ MetaDataOk

SeekSpec == FileInit /\ [][SeekNext]_vars

\* ------------------------------------------------------------------------
\* Reading a text with its length, step by step (decode.rs, i32_sized_text
\* with expected_attribute_bytes None)
\* ------------------------------------------------------------------------

\* the lengths a stream declares: negative ones, short ones, the ones
\* around 512 and the largest i32
DeclaredLengths ==
    { -2147483647 - 1, -1, 2147483647 } \cup (0..2) \cup (510..(512 + MaxPushedBytes + 1))

\* the lengths of the text bytes a stream holds after the declared length
StoredLengths == (0..2) \cup (510..(512 + MaxPushedBytes))

\* a declared length and the bytes after it, and streams that end inside
\* the length
TextStreams ==
    { LE32(declared) \o TextOfLen(stored) :
        declared \in DeclaredLengths, stored \in StoredLengths }
    \cup { <<>>, <<2, 0>> }

TextInit ==
    /\ attribute = NoAttribute
    /\ long_names = FALSE
    /\ debug_build = FALSE
    /\ bytes \in TextStreams
    /\ written = WriteOk(<<>>)
    /\ parsed = ReadOk(<<>>, 0)
    /\ division = NoDivision
    /\ NoText
    /\ NoHeader
    /\ NoFile
    /\ pc = "text length"

\* let string_byte_length = read_i32(read)?; then vec![0; string_byte_length
\* as usize] for a length under 512, whose size for a negative length is one
\* no allocation can have, and vec![0; 512] for a longer one
TextLength ==
    /\ pc = "text length"
    /\ LET length == read_32(bytes, pos)
       IN  IF ~length.ok
           THEN /\ parsed' = ReadErr(length.err, pos)
                /\ pc' = "text failed"
                /\ UNCHANGED << pos, text_vars >>
           ELSE IF length.val < 0
           THEN /\ parsed' = ReadErr(Panic("capacity overflow"), length.pos)
                /\ pc' = "text failed"
                /\ pos' = length.pos
                /\ string_byte_length' = length.val
                /\ UNCHANGED text_bytes
           ELSE /\ string_byte_length' = length.val
                /\ text_bytes' = Repeat(0, IF length.val < 512 THEN length.val ELSE 512)
                /\ pos' = length.pos
                /\ pc' = "text batch"
                /\ UNCHANGED parsed
    /\ UNCHANGED << attribute, long_names, debug_build, bytes, written, division, logarithm,
                    file_vars, attributes, indices, file_version, header_result >>

\* read.read_exact(&mut bytes)?
TextBatch ==
    /\ pc = "text batch"
    /\ IF Remaining(bytes, pos) >= Len(text_bytes)
       THEN /\ text_bytes' = SubSeq(bytes, pos + 1, pos + Len(text_bytes))
            /\ pos' = pos + Len(text_bytes)
            /\ pc' = IF string_byte_length < 512 THEN "text end" ELSE "text push"
            /\ UNCHANGED parsed
       ELSE /\ parsed' = ReadErr(IoError, pos)
            /\ pc' = "text failed"
            /\ UNCHANGED << pos, text_bytes >>
    /\ UNCHANGED << attribute, long_names, debug_build, bytes, written, division, logarithm,
                    file_vars, attributes, indices, file_version, header_result,
                    string_byte_length >>

\* for _ in 0..(string_byte_length - 512) { bytes.push(read_u8(read)?) }
TextPush ==
    /\ pc = "text push"
    /\ IF Len(text_bytes) >= string_byte_length
       THEN pc' = "text end" /\ UNCHANGED << parsed, pos, text_bytes >>
       ELSE LET byte == read_u8(bytes, pos)
            IN  IF byte.ok
                THEN /\ text_bytes' = Append(text_bytes, byte.val)
                     /\ pos' = byte.pos
                     /\ UNCHANGED << parsed, pc >>
                ELSE /\ parsed' = ReadErr(byte.err, pos)
                     /\ pc' = "text failed"
                     /\ UNCHANGED << pos, text_bytes >>
    /\ UNCHANGED << attribute, long_names, debug_build, bytes, written, division, logarithm,
                    file_vars, attributes, indices, file_version, header_result,
                    string_byte_length >>

\* Ok(Text { bytes: SmallVec::from_vec(bytes) })
TextEnd ==
    /\ pc = "text end"
    /\ parsed' = ReadOk(text_bytes, pos)
    /\ pc' = "text read"
    /\ UNCHANGED << attribute, long_names, debug_build, bytes, written, division, logarithm,
                    text_vars, file_vars, header_vars >>

TextNext == TextLength \/ TextBatch \/ TextPush \/ TextEnd

TextSpec == TextInit /\ [][TextNext]_vars

\* ------------------------------------------------------------------------
\* Claims about the attribute codec
\* ------------------------------------------------------------------------

TypeOK == pc \in {"start", "written", "read", "divided", "logged", "version", "version read",
                  "foreign", "foreign read",
                  "loop", "attribute", "finish", "done", "failed",
                  "magic", "meta data", "headers", "offset tables", "chunks",
                  "file done", "file failed",
                  "seek back", "headers seek back",
                  "text length", "text batch", "text push", "text end", "text read",
                  "text failed"}

\* where the parts of a written attribute lie in the buffer
TagStart == Len(attribute.name) + 1
TagEnd == TagStart + Len(AttributeValue_kind_name(attribute.value))
WrittenTag == SubSeq(bytes, TagStart + 1, TagEnd)
WrittenSize == FromLE32(SubSeq(bytes, TagEnd + 2, TagEnd + 5))
WrittenPayload == SubSeq(bytes, TagEnd + 6, Len(bytes))

\* C1: an attribute that was written and read back equals the original:
\* the read succeeds and returns the same name, the same variant and the
\* same field values
C1_AttributeRoundTrip ==
    pc = "read" =>
        /\ parsed.ok
        /\ parsed.val.name = attribute.name
        /\ parsed.val.value.kind = attribute.value.kind
        /\ parsed.val.value = attribute.value

\* C2: the payload a successful write emits is byte_size() bytes long, that
\* length is the size field before it, and Attribute::byte_size is the
\* length of everything Attribute::write emitted
C2_ByteSizeAgrees ==
    pc = "written" /\ written.ok =>
        /\ Len(WrittenPayload) = AttributeValue_byte_size(attribute.value)
        /\ WrittenSize = AttributeValue_byte_size(attribute.value)
        /\ Len(bytes) = Attribute_byte_size(attribute)

\* the tag the dispatch list of the specification gives each variant
DispatchTag(kind) ==
    CASE kind = "I32Box2" -> <<98, 111, 120, 50, 105>>                       \* box2i
      [] kind = "F32Box2" -> <<98, 111, 120, 50, 102>>                       \* box2f
      [] kind = "I32" -> <<105, 110, 116>>                                   \* int
      [] kind = "F32" -> <<102, 108, 111, 97, 116>>                          \* float
      [] kind = "F64" -> <<100, 111, 117, 98, 108, 101>>                     \* double
      [] kind = "Rational" -> <<114, 97, 116, 105, 111, 110, 97, 108>>       \* rational
      [] kind = "TimeCode" -> <<116, 105, 109, 101, 99, 111, 100, 101>>      \* timecode
      [] kind = "I32Vec2" -> <<118, 50, 105>>                                \* v2i
      [] kind = "F32Vec2" -> <<118, 50, 102>>                                \* v2f
      [] kind = "I32Vec3" -> <<118, 51, 105>>                                \* v3i
      [] kind = "F32Vec3" -> <<118, 51, 102>>                                \* v3f
      [] kind = "ChannelList" -> <<99, 104, 108, 105, 115, 116>>             \* chlist
      [] kind = "Chromaticities" ->
            <<99, 104, 114, 111, 109, 97, 116, 105, 99, 105, 116, 105, 101, 115>>
      [] kind = "Compression" -> <<99, 111, 109, 112, 114, 101, 115, 115, 105, 111, 110>>
      [] kind = "EnvironmentMap" -> <<101, 110, 118, 109, 97, 112>>          \* envmap
      [] kind = "KeyCode" -> <<107, 101, 121, 99, 111, 100, 101>>            \* keycode
      [] kind = "LineOrder" -> <<108, 105, 110, 101, 79, 114, 100, 101, 114>> \* lineOrder
      [] kind = "F32Matrix3x3" -> <<109, 51, 51, 102>>                       \* m33f
      [] kind = "F32Matrix4x4" -> <<109, 52, 52, 102>>                       \* m44f
      [] kind = "Preview" -> <<112, 114, 101, 118, 105, 101, 119>>           \* preview
      [] kind = "Text" -> <<115, 116, 114, 105, 110, 103>>                   \* string
      [] kind = "TextVector" ->
            <<115, 116, 114, 105, 110, 103, 118, 101, 99, 116, 111, 114>>    \* stringvector
      [] kind = "TileDescription" -> <<116, 105, 108, 101, 100, 101, 115, 99>> \* tiledesc

\* C3: the tag a write emits for a variant is the tag of the dispatch list,
\* and the read dispatches the written tag back to the same variant
C3_TypeTagAgreement ==
    pc \in {"written", "read"} /\ written.ok =>
        /\ WrittenTag = DispatchTag(attribute.value.kind)
        /\ pc = "read" =>
              /\ parsed.err.kind # "UnknownAttributeType"
              /\ parsed.ok => parsed.val.value.kind = attribute.value.kind

\* what the length rule says of a text of length n
LengthRule(n, long) ==
    IF n = 0 THEN ContentTextMin1
    ELSE IF ~long /\ n >= 32 THEN ContentTextMax31
    ELSE IF long /\ n >= 256 THEN ContentTextMax255
    ELSE NoError

\* the texts an attribute writes under the length rule, in the order written:
\* its name, its type tag and the names of its channels
LimitedTexts(a) ==
    << a.name, AttributeValue_kind_name(a.value) >>
        \o (IF a.value.kind = "ChannelList"
            THEN [i \in 1..Len(a.value.channels) |-> a.value.channels[i].name]
            ELSE <<>>)

\* C5: a write fails with Content(Text, Min(1)) for a name, tag or channel
\* name of length 0, with Max(31) for one of length >= 32 without long names,
\* with Max(255) for one of length >= 256 with long names (the first such
\* text decides), and succeeds when every such text is within the rule
C5_NameLengthEnforced ==
    pc = "written" /\ attribute.value.kind \notin {"Preview", "TextVector"} =>
        LET texts == LimitedTexts(attribute)
            refused == { i \in 1..Len(texts) : LengthRule(Len(texts[i]), long_names) # NoError }
            first == CHOOSE i \in refused : \A j \in refused : i <= j
        IN  IF refused = {} THEN written.ok
            ELSE ~written.ok /\ written.err = LengthRule(Len(texts[first]), long_names)

C5_Witness ==
    /\ pc = "written"
    /\ Len(attribute.name) = 32
    /\ ~long_names
    /\ written.err = ContentTextMax31

\* n = 4 * w * h over the integers, for u32 patterns w, h >= 0 (no product
\* is formed, so none can overflow)
IsFourTimesProduct(n, w, h) ==
    /\ n % 4 = 0
    /\ IF w = 0 THEN n = 0 ELSE (n \div 4) % w = 0 /\ (n \div 4) \div w = h

\* C6: a preview is written if and only if its pixel buffer holds exactly
\* 4 * width * height bytes
C6_PreviewConsistency ==
    pc = "written" /\ attribute.value.kind = "Preview" =>
        (written.ok <=> IsFourTimesProduct(Len(attribute.value.pixel_data),
                                           attribute.value.width, attribute.value.height))

\* the order of two f32 that are not NaN, on their bit patterns
F32Key(p) == IF p >= 0 THEN p ELSE 0 - ((p + 2147483647) + 1)
F32LessEq(a, b) == F32Key(a) <= F32Key(b)

\* C8: a box is written only if its minimum is at most its maximum on both axes
C8_BoxMonotonicity ==
    pc = "written" /\ written.ok =>
        /\ attribute.value.kind = "I32Box2" =>
              /\ attribute.value.x_min <= attribute.value.x_max
              /\ attribute.value.y_min <= attribute.value.y_max
        /\ attribute.value.kind = "F32Box2" =>
              /\ F32LessEq(attribute.value.x_min, attribute.value.x_max)
              /\ F32LessEq(attribute.value.y_min, attribute.value.y_max)

\* the mode byte level_mode | (rounding_mode << 4), as a table
ModeByte(level_mode, rounding_mode) ==
    CASE level_mode = "One" /\ rounding_mode = "Down" -> 0
      [] level_mode = "MipMap" /\ rounding_mode = "Down" -> 1
      [] level_mode = "RipMap" /\ rounding_mode = "Down" -> 2
      [] level_mode = "One" /\ rounding_mode = "Up" -> 16
      [] level_mode = "MipMap" /\ rounding_mode = "Up" -> 17
      [] level_mode = "RipMap" /\ rounding_mode = "Up" -> 18

\* C9: a tile description is written as x_size, y_size and the mode byte
\* level_mode | (rounding_mode << 4), and reading the written bytes returns
\* the original description
C9_TileDescriptionRoundTrip ==
    pc \in {"written", "read"} /\ attribute.value.kind = "TileDescription" =>
        /\ written.ok
        /\ WrittenPayload = LE32(attribute.value.x_size) \o LE32(attribute.value.y_size)
                \o << ModeByte(attribute.value.level_mode, attribute.value.rounding_mode) >>
        /\ pc = "read" => parsed.ok /\ parsed.val.value = attribute.value

C9_Witness ==
    /\ pc = "read"
    /\ attribute.value.kind = "TileDescription"
    /\ attribute.value.level_mode = "RipMap"
    /\ attribute.value.rounding_mode = "Up"
    /\ attribute.value.x_size = -2
    /\ bytes[Len(bytes)] = 18
    /\ parsed.ok
    /\ parsed.val.value = attribute.value

\* ------------------------------------------------------------------------
\* Claims about RoundingMode
\* ------------------------------------------------------------------------

\* C10: Down.divide is the floor and Up.divide the ceiling of dividend / divisor:
\* Down.divide(d, s) * s <= d < (Down.divide(d, s) + 1) * s and
\* Up.divide(d, s) * s >= d > (Up.divide(d, s) - 1) * s
C10_DivideRounds ==
    pc = "divided" =>
        LET d == division.dividend
            s == division.divisor
            q == division.result
        IN  /\ division.mode = "Down" => q * s <= d /\ d < (q + 1) * s
            /\ division.mode = "Up" => q * s >= d /\ d > (q - 1) * s

C10_Witness ==
    /\ pc = "divided"
    /\ division = [mode |-> "Up", dividend |-> 100, divisor |-> 49, result |-> 3]

\* ------------------------------------------------------------------------
\* Claims about the header loop and about attributes of any origin
\* ------------------------------------------------------------------------

\* the type tags of the dispatch list of the specification
RecognisedTags == { DispatchTag(kind) : kind \in Kinds }

\* the attribute that lies ahead of the position of the stream
AheadName == null_terminated_text(bytes, pos)
AheadKind == null_terminated_text(bytes, AheadName.pos)
AheadSize == read_32(bytes, AheadKind.pos)

UnknownAhead ==
    /\ AheadName.ok /\ AheadKind.ok /\ AheadSize.ok
    /\ AheadKind.val \notin RecognisedTags

\* the position that lies count bytes (a u32) after position p
Forward(p, count) ==
    IF count >= 0 /\ count <= 2147483647 - p THEN p + count ELSE 2147483647

\* C4: when the header loop meets an attribute whose type tag is not
\* recognised, both value readers return UnknownAttributeType with
\* bytes_to_skip the declared size and the position still before the payload,
\* the loop seeks forward by exactly the declared size from there, records
\* no attribute and no index, does not fail and goes on with the next
\* attribute
C4_UnknownAttributesSkipped ==
    [][ pc = "attribute" /\ UnknownAhead =>
          /\ attribute_value(bytes, AheadSize.pos, AheadKind.val, AheadSize.val, debug_build)
                = ReadErr(UnknownAttributeType(AheadSize.val), AheadSize.pos)
          /\ AttributeValue_read(bytes, AheadSize.pos, AheadKind.val, AheadSize.val, debug_build)
                = ReadErr(UnknownAttributeType(AheadSize.val), AheadSize.pos)
          /\ pos' = Forward(AheadSize.pos, AheadSize.val)
          /\ attributes' = attributes
          /\ indices' = indices
          /\ header_result' = header_result
          /\ pc' = "loop" ]_vars

\* a header whose stream holds more than the eight required attributes and
\* the terminator, read to its end with eight attributes recorded: the
\* others were skipped
C4_Witness ==
    /\ pc = "done"
    /\ header_result.ok
    /\ Len(attributes) = 8
    /\ pos = Len(bytes)
    /\ Len(bytes) > Len(Concat(RequiredItems)) + 1

\* the declared size and the dimensions of the preview that was read
ForeignSize == FromLE32(SubSeq(bytes, 11, 14))
ForeignWidth == FromLE32(SubSeq(bytes, 15, 18))
ForeignHeight == FromLE32(SubSeq(bytes, 19, 22))

\* C7: a preview whose declared size is not 8 + 4 * width * height is
\* rejected by the read
C7_PreviewSizeValidated ==
    pc = "foreign read" /\ parsed.ok =>
        /\ ForeignSize >= 8
        /\ IsFourTimesProduct(ForeignSize - 8, ForeignWidth, ForeignHeight)


\* ------------------------------------------------------------------------
\* Claims about the logarithms
\* ------------------------------------------------------------------------

\* the number before a u32 n > 0, on patterns
Predecessor(n) == IF n = (0 - 2147483647) - 1 THEN 2147483647 ELSE n - 1

\* whether a bit under the highest set bit of n is set: n is no power of two
LowerBitSet(n) == \A k \in 0..31 : n # PowerOfTwo(k)

\* C11: floor_log_2(2^k) = k for k in 0..31; ceil_log_2(n) =
\* floor_log_2(n - 1) + 1 for every n > 1; ceil_log_2(n) is floor_log_2(n)
\* plus one iff a bit that was shifted out was set; log2 is floor_log_2
\* under Down and ceil_log_2 under Up
C11_Log2Rounding ==
    pc = "logged" =>
        LET n == logarithm.number
        IN  /\ \A k \in 0..31 : n = PowerOfTwo(k) => logarithm.floor = k
            /\ UGt1(n) => logarithm.ceil = floor_log_2(Predecessor(n)) + 1
            /\ logarithm.ceil = logarithm.floor + (IF UGt1(n) /\ LowerBitSet(n) THEN 1 ELSE 0)
            /\ logarithm.mode = "Down" => logarithm.result = logarithm.floor
            /\ logarithm.mode = "Up" => logarithm.result = logarithm.ceil

C11_Witness ==
    /\ pc = "logged"
    /\ logarithm.mode = "Up"
    /\ logarithm.number = PowerOfTwo(31) + 1
    /\ logarithm.floor = 31
    /\ logarithm.result = 32


\* ------------------------------------------------------------------------
\* Claims about the file envelope
\* ------------------------------------------------------------------------

\* C13: a stream whose first four bytes are not the magic number fails with
\* NotEXR and no version, header, offset table or chunk is read from it; a
\* stream whose first four bytes are the magic number does not fail with
\* NotEXR, and the version is read from position 4
C13_MagicNumberCheck ==
    /\ pc # "magic" /\ Len(bytes) >= 4 /\ SubSeq(bytes, 1, 4) # MAGIC_NUMBER =>
          /\ pc = "file failed"
          /\ file_result = FileErr(NotEXR)
          /\ file_version = NoVersion
          /\ attributes = <<>> /\ headers = <<>> /\ offset_tables = <<>> /\ chunks = <<>>
    /\ pc # "magic" /\ Len(bytes) >= 4 /\ SubSeq(bytes, 1, 4) = MAGIC_NUMBER =>
          /\ file_result.err # NotEXR
          /\ pos >= 4
          /\ pc = "meta data" => pos = 4

C13_Witness ==
    /\ pc = "file failed"
    /\ file_result = FileErr(NotEXR)
    /\ Len(bytes) > 8

\* bit i of the version word of the stream
BitOfByte(i) == (bytes[i \div 8 + 1] \div (2 ^ (i % 8))) % 2 = 1

\* C12: the decoded file_format_version is the low 8 bits of the version
\* word, and the four flags are its bits 9, 10, 11 and 12
C12_VersionWordDecoding ==
    pc = "version read" =>
        /\ file_version.file_format_version = bytes[1]
        /\ file_version.is_single_tile = BitOfByte(9)
        /\ file_version.has_long_names = BitOfByte(10)
        /\ file_version.has_deep_data = BitOfByte(11)
        /\ file_version.has_multiple_parts = BitOfByte(12)


\* ------------------------------------------------------------------------
\* Claims about the attributes a header must and must not have
\* ------------------------------------------------------------------------

\* the keys every header must have, in their order, and what Missing calls them
RequiredKeys ==
    << << CHANNELS, "channels" >>, << COMPRESSION, "compression" >>,
       << DATA_WINDOW, "data window" >>, << DISPLAY_WINDOW, "display window" >>,
       << LINE_ORDER, "line order" >>, << PIXEL_ASPECT, "pixel aspect ratio" >>,
       << WINDOW_CENTER, "screen window center" >>,
       << WINDOW_WIDTH, "screen window width" >> >>

\* the names of the attributes recorded
SeenNames == { attributes[i].name : i \in 1..Len(attributes) }

AbsentKeys == { k \in 1..Len(RequiredKeys) : RequiredKeys[k][1] \notin SeenNames }

\* C14: once the attribute loop has met the terminator, the header is
\* returned only if the eight required keys were all seen, and otherwise
\* the result is Missing of the first absent key in their order; before
\* that no result is Missing
C14_RequiredAttributesPresent ==
    [][ /\ pc = "finish" =>
              IF AbsentKeys = {}
              THEN header_result'.err.kind # "Missing"
              ELSE /\ pc' = "failed"
                   /\ \E k \in AbsentKeys :
                         /\ \A j \in AbsentKeys : k <= j
                         /\ header_result' = [ok |-> FALSE, err |-> Missing(RequiredKeys[k][2])]
        /\ pc # "finish" => header_result'.err.kind # "Missing"
        /\ pc' = "done" => pc = "finish" /\ AbsentKeys = {} ]_vars

\* a header without data window and screen window width, read to its
\* terminator: Missing names the data window
C14_Witness ==
    /\ pc = "failed"
    /\ header_result.err = Missing("data window")
    /\ WINDOW_WIDTH \notin SeenNames
    /\ CHANNELS \in SeenNames

Named(header, name) == { i \in 1..Len(header.attributes) : header.attributes[i].name = name }
HasNamed(header, name) == Named(header, name) # {}
ValueNamed(header, name) ==
    header.attributes[CHOOSE i \in Named(header, name) : \A j \in Named(header, name) : i >= j].value

\* the header whose offset table is read next
NextHeader == headers[Len(offset_tables) + 1]

\* C16: for a header whose chunkCount is an I32 n >= 0, offset_table reads
\* exactly n offsets (or meets the end of the stream); for a chunkCount that
\* is negative or no I32 it returns an error and reads nothing
C16_OffsetTableWithChunkCount ==
    [][ pc = "offset tables" /\ Len(offset_tables) < Len(headers) /\ HasNamed(NextHeader, CHUNKS) =>
          LET chunk_count == ValueNamed(NextHeader, CHUNKS)
          IN  IF chunk_count.kind = "I32" /\ chunk_count.value >= 0
              THEN IF Len(bytes) - pos >= 8 * chunk_count.value
                   THEN /\ Len(offset_tables') = Len(offset_tables) + 1
                        /\ Len(offset_tables'[Len(offset_tables')]) = chunk_count.value
                        /\ pos' = pos + 8 * chunk_count.value
                   ELSE pc' = "file failed" /\ file_result'.err = IoError
              ELSE /\ pc' = "file failed"
                   /\ file_result'.err.kind \in {"Invalid", "NotSupported"}
                   /\ pos' = pos
                   /\ offset_tables' = offset_tables ]_vars

\* the chunks a header without chunk count has: the rows of the data window
\* over the scan lines of a block, or the tiles of the one level of level
\* mode One (the headers read here have no compression but None, whose
\* blocks hold one scan line, and no other level mode)
ComputedChunkCount(header) ==
    LET window == ValueNamed(header, DATA_WINDOW)
        width == window.x_max - window.x_min + 1
        height == window.y_max - window.y_min + 1
        tiles == ValueNamed(header, TILES)
    IN  IF HasNamed(header, TILES)
        THEN ((width + tiles.x_size - 1) \div tiles.x_size)
                * ((height + tiles.y_size - 1) \div tiles.y_size)
        ELSE height

\* C17: for a single-part header without chunkCount, offset_table computes
\* the number of entries from the header and reads that many offsets
C17_OffsetTableWithoutChunkCount ==
    [][ /\ pc = "offset tables" /\ Len(offset_tables) < Len(headers)
        /\ ~file_version.has_multiple_parts
        /\ ~HasNamed(NextHeader, CHUNKS)
        /\ Len(bytes) - pos >= 8 * ComputedChunkCount(NextHeader)
        => /\ Len(offset_tables') = Len(offset_tables) + 1
           /\ Len(offset_tables'[Len(offset_tables')]) = ComputedChunkCount(NextHeader)
           /\ pos' = pos + 8 * ComputedChunkCount(NextHeader) ]_vars

\* the chunk count of a header: its chunkCount, or else the computed one
EffectiveChunkCount(header) ==
    IF HasNamed(header, CHUNKS) THEN ValueNamed(header, CHUNKS).value
    ELSE ComputedChunkCount(header)

\* C18: when meta_data has succeeded there is one offset table for each
\* header, and each has as many offsets as its header has chunks
C18_ChunkCountAgreement ==
    pc \in {"chunks", "file done"} =>
        /\ Len(offset_tables) = Len(headers)
        /\ \A p \in 1..Len(headers) : Len(offset_tables[p]) = EffectiveChunkCount(headers[p])

C18_Witness ==
    /\ pc = "chunks"
    /\ Len(headers) = 2
    /\ Len(offset_tables[1]) = 1
    /\ Len(offset_tables[2]) = 1

\* the part number ahead of the position, as its two 32-bit words
AheadPartLow == FromLE32(SubSeq(bytes, pos + 1, pos + 4))
AheadPartHigh == FromLE32(SubSeq(bytes, pos + 5, pos + 8))

\* the block decoder of a type text
DecoderOf(type) ==
    CASE type = SCAN_LINE -> "scan_line_block"
      [] type = TILE -> "tile_block"
      [] type = DEEP_SCAN_LINE -> "deep_scan_line_block"
      [] type = DEEP_TILE -> "deep_tile_block"
      [] OTHER -> ""

\* the type text of a header ("" for a type that is no text)
TypeText(header) ==
    IF HasNamed(header, TYPE) /\ ValueNamed(header, TYPE).kind = "Text"
    THEN ValueNamed(header, TYPE).value ELSE <<>>

\* C19: a chunk of a multi-part file goes to the block decoder that the type
\* of the header at its part number names; a part number that is no index of
\* a header fails with Invalid("chunk part number") and a type outside the
\* four kinds fails as Invalid, both before a block decoder is called
C19_MultiPartRouting ==
    [][ /\ pc = "chunks" /\ file_version.has_multiple_parts
        /\ Len(chunks) < TotalLen(offset_tables)
        /\ Len(bytes) - pos >= 8
        => IF AheadPartHigh # 0 \/ AheadPartLow < 0 \/ AheadPartLow >= Len(headers)
           THEN /\ file_result' = FileErr(Invalid("chunk part number"))
                /\ chunks' = chunks
           ELSE IF DecoderOf(TypeText(headers[AheadPartLow + 1])) # ""
           THEN chunks' = Append(chunks, DecoderOf(TypeText(headers[AheadPartLow + 1])))
           ELSE /\ file_result'.err.kind = "Invalid"
                /\ chunks' = chunks ]_vars

\* the two-part file of scanlineimage and deeptile, its chunk of part
\* number 1 handed to the deep tile decoder
C19_Witness ==
    /\ chunks = << "deep_tile_block" >>
    /\ Len(headers) = 2
    /\ TypeText(headers[1]) = SCAN_LINE
    /\ TypeText(headers[2]) = DEEP_TILE

\* C20: the chunks of a single-part file go to the tile decoder if the
\* header has a tiles attribute and to the scan line decoder otherwise,
\* whether the header has a type or not
C20_SinglePartRouting ==
    [][ pc = "chunks" /\ ~file_version.has_multiple_parts /\ Len(offset_tables[1]) >= 1 =>
          chunks' = << IF HasNamed(headers[1], TILES) THEN "tile_block"
                       ELSE "scan_line_block" >> ]_vars

\* ------------------------------------------------------------------------
\* Claims about channel lists, key codes and texts
\* ------------------------------------------------------------------------

\* the order of two texts by their bytes, a proper prefix coming first
RECURSIVE BytesLess(_, _)
BytesLess(a, b) ==
    IF b = <<>> THEN FALSE
    ELSE IF a = <<>> THEN TRUE
    ELSE IF Head(a) # Head(b) THEN Head(a) < Head(b)
    ELSE BytesLess(Tail(a), Tail(b))

\* the names of a channel list are unique and in the order of their bytes
SortedChannels(channels) ==
    \A i \in 1..Len(channels) : \A j \in 1..Len(channels) :
        i < j => BytesLess(channels[i].name, channels[j].name)

\* C21: every channel list that Channel::write_list writes successfully is
\* emitted with its names unique and sorted by byte value: the list read
\* back from the written bytes is sorted, and is the list given if that was
\* sorted
C21_ChannelListSorted ==
    pc = "written" /\ written.ok /\ attribute.value.kind = "ChannelList" =>
        LET list == Channel_read_list(WrittenPayload, 0)
        IN  /\ list.ok
            /\ SortedChannels(list.val)
            /\ SortedChannels(attribute.value.channels) => list.val = attribute.value.channels

\* the seven fields of a key code in the order of the format
KeyCodeFields(k) ==
    << k.film_manufacturer_code, k.film_type, k.film_roll_prefix, k.count,
       k.perforation_offset, k.perforations_per_frame, k.perforations_per_count >>

\* C22: a KeyCode is written as its seven i32 fields in the order of the
\* format, 28 bytes, byte_size is that length, and KeyCode::read consumes
\* exactly the bytes KeyCode::write emitted
C22_KeyCodeLayout ==
    pc = "written" /\ written.ok /\ attribute.value.kind = "KeyCode" =>
        /\ WrittenPayload = Concat([i \in 1..7 |-> LE32(KeyCodeFields(attribute.value)[i])])
        /\ Len(WrittenPayload) = 7 * 4
        /\ KeyCode_byte_size(attribute.value) = Len(WrittenPayload)
        /\ KeyCode_read(WrittenPayload, 0).ok
        /\ KeyCode_read(WrittenPayload, 0).pos = Len(WrittenPayload)

\* ------------------------------------------------------------------------
\* Claims about the stream position
\* ------------------------------------------------------------------------

\* C23: skip_null_byte_if_present returns true and moves the position by
\* one byte when the next byte is 0; when the next byte is not 0 it returns
\* false and leaves the position, so that the attribute read next begins
\* with that byte
C23_TerminatorPeek ==
    [][ /\ pc = "loop" /\ pos < Len(bytes)
            => IF bytes[pos + 1] = 0
               THEN pc' = "finish" /\ pos' = pos + 1
               ELSE pc' = "attribute" /\ pos' = pos
        /\ pc = "attribute" /\ pc' = "loop" /\ attributes' # attributes
            => attributes'[Len(attributes')].name[1] = bytes[pos + 1] ]_vars

\* the peek has found a byte that is not 0 after an attribute and left it
C23_Witness ==
    /\ pc = "attribute"
    /\ Len(attributes) >= 1
    /\ pos < Len(bytes)
    /\ bytes[pos + 1] # 0

\* the bytes i32_sized_text has read after the declared length
TextBytesRead == IF pos >= 4 THEN pos - 4 ELSE 0

\* C24: for every declared i32 length, i32_sized_text never holds a buffer
\* larger than the bytes already read plus 512, and it ends with the text
\* or, as soon as the stream ends before the declared length, with a
\* returned error
C24_CappedAllocation ==
    /\ Len(text_bytes) <= TextBytesRead + 512
    /\ pc \in {"text read", "text failed"} =>
          /\ parsed.err.kind # "panic"
          /\ parsed.ok => /\ Len(parsed.val) = string_byte_length
                          /\ parsed.val = SubSeq(bytes, 5, 4 + string_byte_length)
          /\ ~parsed.ok => parsed.err = IoError /\ pos <= Len(bytes)
    /\ pc = "text push" => Len(text_bytes) <= string_byte_length

\* C25: reading a string or a stringvector attribute of declared size S
\* consumes exactly S bytes and never reads past the end of the payload; a
\* string whose S bytes are there is read
C25_ExactStringConsumption ==
    pc = "foreign read" /\ AheadKind.ok
        /\ AheadKind.val \in { DispatchTag("Text"), DispatchTag("TextVector") } =>
            /\ parsed.err.kind # "panic"
            /\ parsed.ok => parsed.pos = AheadSize.pos + AheadSize.val
            /\ AheadKind.val = DispatchTag("Text")
                    /\ Len(bytes) - AheadSize.pos >= AheadSize.val => parsed.ok

\* C26: while the magic number, the version word, the headers and the
\* offset tables are read, the position of the stream never decreases from
\* one step of input to the next
C26_MonotonicPosition ==
    [][ pc \notin {"chunks", "file done", "file failed"} => pos' >= pos ]_vars

\* ------------------------------------------------------------------------
\* Claims about the header that is returned
\* ------------------------------------------------------------------------

\* the name of the attribute an index is kept for
KeyOfIndex(field) ==
    CASE field = "tiles" -> TILES
      [] field = "name" -> NAME
      [] field = "kind" -> TYPE
      [] field = "version" -> VERSION
      [] field = "chunk_count" -> CHUNKS
      [] field = "max_samples_per_pixel" -> MAX_SAMPLES
      [] field = "channels" -> CHANNELS
      [] field = "compression" -> COMPRESSION
      [] field = "data_window" -> DATA_WINDOW
      [] field = "display_window" -> DISPLAY_WINDOW
      [] field = "line_order" -> LINE_ORDER
      [] field = "pixel_aspect" -> PIXEL_ASPECT
      [] field = "screen_window_center" -> WINDOW_CENTER
      [] field = "screen_window_width" -> WINDOW_WIDTH

\* the attributes of recognised type that lie in the stream from position p
\* to the terminator, in the order of the file
RECURSIVE RecognisedFrom(_)
RecognisedFrom(p) ==
    LET name == null_terminated_text(bytes, p)
        kind == null_terminated_text(bytes, name.pos)
        size == read_32(bytes, kind.pos)
    IN  IF p >= Len(bytes) \/ bytes[p + 1] = 0 THEN <<>>
        ELSE IF kind.val \in RecognisedTags
        THEN << attribute_read(bytes, p, debug_build).val >>
                \o RecognisedFrom(attribute_read(bytes, p, debug_build).pos)
        ELSE RecognisedFrom(Forward(size.pos, size.val))

\* C27: in every header that header() returns the attributes are the
\* attributes of recognised type in the order of the file, and every index
\* that is kept is a place of that list whose attribute has the name the
\* index is kept for
C27_HeaderIndexTable ==
    pc = "done" /\ header_result.ok =>
        /\ attributes = RecognisedFrom(0)
        /\ \A field \in DOMAIN indices :
              indices[field].some =>
                  /\ indices[field].index >= 0
                  /\ indices[field].index < Len(attributes)
                  /\ attributes[indices[field].index + 1].name = KeyOfIndex(field)

\* a header was returned whose stream begins with an attribute of unknown
\* type, skipped before the attributes the indices are kept for
C27_Witness ==
    /\ pc = "done" /\ header_result.ok
    /\ null_terminated_text(bytes, null_terminated_text(bytes, 0).pos).val \notin RecognisedTags
    /\ indices["channels"].some
    /\ Len(attributes) >= 8

\* ------------------------------------------------------------------------
\* Claims about the order and the end of parsing
\* ------------------------------------------------------------------------

\* bit i of the version word of a file, which lies after the magic number
FileVersionBit(i) == (bytes[5 + i \div 8] \div (2 ^ (i % 8))) % 2 = 1

\* deep data without multiple parts, or a single tile together with
\* multiple parts or deep data
InvalidCombination ==
    \/ FileVersionBit(11) /\ ~FileVersionBit(12)
    \/ FileVersionBit(9) /\ (FileVersionBit(12) \/ FileVersionBit(11))

\* C28: meta_data checks the flags of the version before it reads a header:
\* a combination that is not valid returns Invalid("version value
\* combination") with the position right after the version word and no
\* header read, a valid one goes on to the headers
C28_VersionGatesHeaders ==
    [][ pc = "meta data" /\ Len(bytes) - pos >= 4 =>
          /\ pos' = pos + 4
          /\ headers' = <<>> /\ attributes' = <<>> /\ offset_tables' = <<>>
          /\ IF InvalidCombination
             THEN /\ file_result' = FileErr(Invalid("version value combination"))
                  /\ pc' = "file failed"
             ELSE pc' = "headers" ]_vars

\* a file of a version that is not valid was refused with its header unread
C28_Witness ==
    /\ pc = "file failed"
    /\ file_result = FileErr(Invalid("version value combination"))
    /\ pos = 8
    /\ Len(bytes) > 8
    /\ headers = <<>>

WriteRejected ==
    /\ pc = "written"
    /\ ~written.ok
    /\ written.err.kind \in {"Content", "Combination"}

\* C30: whenever Attribute::write returns a validation error (the length of
\* a name, the name of a channel of a channel list, an empty text of a text
\* vector, a preview whose data do not fit its dimensions), no byte of the
\* attribute has been appended to the output
C30_RejectedWriteLeavesOutput == WriteRejected => bytes = <<>>

====
